---- MODULE Spec2Model ----
(***************************************************************************)
(* Risk aggregation engine of the childsafe backend:                       *)
(*   backend/app/services/lifestyle_service.py      (LifestyleService)     *)
(*   backend/app/services/health_report_service.py  (HealthReportService)  *)
(*                                                                         *)
(* Numbers.  The services compute scores as Python floats.  Every score    *)
(* the code can produce is a decimal with at most four fractional digits   *)
(* (integer points times 0.8..1.3, times 0.25/0.5, times a multiplier      *)
(* rounded to two decimals, times 0.6/0.4), so a score is held here as an  *)
(* integer number of 1/Scale points and a multiplier as an integer number  *)
(* of hundredths.  All products below are exact in these units; the float  *)
(* results differ from them by rounding errors far below one unit.         *)
(*                                                                         *)
(* Text.  Free-text fields (medical history entries, gender) are sequences *)
(* of one-character strings so that str.lower() and the substring test     *)
(* `k in s` are computed, not assumed.  Enum-valued fields are strings.    *)
(***************************************************************************)
EXTENDS Integers, Sequences, FiniteSets, TLC

VARIABLES
    pc,                 \* "idle": no call in progress; "done": a call has returned
    lifestyle_data,     \* the LifestyleInput given to the call, or NoLifestyle
    aqi,                \* air_quality.data.aqi
    soil_risk,          \* soil_data.properties.contamination_risk
    water_risk,         \* water_data.contamination_risk
    score_in,           \* argument of _get_risk_level
    lifestyle_result,   \* return value of calculate_lifestyle_risk
    multiplier,         \* return value of _calculate_vulnerability_multiplier
    level_out,          \* return value of _get_risk_level
    report,             \* return value of generate_report (with its locals)
    primary_pollutant,  \* air_quality.primary_pollutant
    soil_ph,            \* soil_data.properties.ph, in tenths
    water_ph,           \* water_data.ph, in tenths, or NonePh
    water_hardness,     \* water_data.hardness
    previous,           \* what an earlier call for the same place was given and returned
    air_quality,        \* generate_report: the AirQualityResponse, and whether the fetch failed
    soil_task,          \* generate_report: the coroutine safe_soil_research()
    water_task,         \* generate_report: the coroutine safe_water_quality()
    arrivals,           \* the order in which the two coroutines finished
    health_reports,     \* table health_reports: the rows, by id
    lifestyle_table,    \* table lifestyle_data: the rows, by id
    request,            \* the request a router handler is serving
    response            \* what the handler answered

vars == <<pc, lifestyle_data, aqi, soil_risk, water_risk, score_in,
          lifestyle_result, multiplier, level_out, report,
          primary_pollutant, soil_ph, water_ph, water_hardness, previous,
          air_quality, soil_task, water_task, arrivals,
          health_reports, lifestyle_table, request, response>>

\* The locals of generate_report that hold what the collaborators answered
service_vars == <<air_quality, soil_task, water_task, arrivals>>
\* The state of the routers: the two tables and the request being served
router_vars == <<health_reports, lifestyle_table, request, response>>

----------------------------------------------------------------------------
(* Fixed point and Python built-ins *)

\* One point of a 0-100 score is Scale units.
Scale == 100 * 100

Pts(n) == n * Scale

Min(a, b) == IF a <= b THEN a ELSE b

\* Python None, for a string-valued optional field and for a text-valued one.
None == "<None>"
NoneText == <<"<None>">>
\* medical_history = None (the field's default)
NoneList == <<NoneText>>
\* lifestyle_data = None
NoLifestyle == [none |-> TRUE]

UpperChars == <<"A","B","C","D","E","F","G","H","I","J","K","L","M",
                "N","O","P","Q","R","S","T","U","V","W","X","Y","Z">>
LowerChars == <<"a","b","c","d","e","f","g","h","i","j","k","l","m",
                "n","o","p","q","r","s","t","u","v","w","x","y","z">>

LowerChar(c) ==
    IF \E i \in 1..26 : UpperChars[i] = c
    THEN LowerChars[CHOOSE i \in 1..26 : UpperChars[i] = c]
    ELSE c

\* str.lower()
Lower(s) == [i \in 1..Len(s) |-> LowerChar(s[i])]

\* k in s, for strings
Contains(k, s) ==
    \E i \in 0..(Len(s) - Len(k)) : SubSeq(s, i + 1, i + Len(k)) = k

\* list[:n]
Take(list, n) == SubSeq(list, 1, Min(n, Len(list)))

----------------------------------------------------------------------------
(* LifestyleService *)

AgeRanges == {"13-17", "18-25", "26-35", "36-50", "51-65", "65+"}
SmokingStatuses == {"never", "former", "current"}
ActivityLevels == {"active", "moderate", "sedentary"}
WorkEnvironments == {"indoor", "outdoor", "mixed"}

\* dict.get(key, 0) on the four score tables
SMOKING_SCORES(v) ==
    CASE v = "never" -> 0 [] v = "former" -> 15 [] v = "current" -> 40 [] OTHER -> 0

ACTIVITY_SCORES(v) ==
    CASE v = "active" -> 0 [] v = "moderate" -> 10 [] v = "sedentary" -> 25 [] OTHER -> 0

WORK_ENV_SCORES(v) ==
    CASE v = "outdoor" -> 5 [] v = "mixed" -> 3 [] v = "indoor" -> 0 [] OTHER -> 0

STRESS_SCORES(v) ==
    CASE v = "low" -> 0 [] v = "medium" -> 10 [] v = "high" -> 20 [] OTHER -> 0

\* _get_age_multiplier, in tenths
AgeMultiplier10(age_range) ==
    CASE age_range = "13-17" -> 8
      [] age_range = "18-25" -> 9
      [] age_range = "26-35" -> 10
      [] age_range = "36-50" -> 11
      [] age_range = "51-65" -> 12
      [] age_range = "65+"   -> 13
      [] OTHER               -> 10

\* str.capitalize() of a WorkEnvironment value
Capitalize(v) ==
    CASE v = "outdoor" -> "Outdoor" [] v = "mixed" -> "Mixed" [] v = "indoor" -> "Indoor"

\* Each block of calculate_lifestyle_risk is a step on the triple
\* <<risk_score, risk_factors, positive_factors>>, risk_score in whole points.
SmokingStep(acc, l) ==
    LET smoking_risk == SMOKING_SCORES(l.smoking_status) IN
    IF smoking_risk = 0
    THEN <<acc[1] + smoking_risk, acc[2],
           Append(acc[3], "Non-smoker - excellent respiratory health foundation")>>
    ELSE IF smoking_risk > 30
    THEN <<acc[1] + smoking_risk,
           Append(acc[2], "Current smoker - significant health risk factor"), acc[3]>>
    ELSE <<acc[1] + smoking_risk,
           Append(acc[2], "Former smoker - reduced but present health impact"), acc[3]>>

ActivityStep(acc, l) ==
    LET activity_risk == ACTIVITY_SCORES(l.activity_level) IN
    IF activity_risk = 0
    THEN <<acc[1] + activity_risk, acc[2],
           Append(acc[3], "Active lifestyle - strong cardiovascular protection")>>
    ELSE IF activity_risk > 20
    THEN <<acc[1] + activity_risk,
           Append(acc[2], "Sedentary lifestyle - increases multiple health risks"), acc[3]>>
    ELSE <<acc[1] + activity_risk, acc[2],
           Append(acc[3], "Moderate activity level - good health maintenance")>>


\* WorkStep that reports only the outdoor environment
WorkStep_OutdoorOnly(acc, l) ==
    LET work_risk == WORK_ENV_SCORES(l.work_environment) IN
    IF work_risk > 3
    THEN <<acc[1] + work_risk,
           Append(acc[2], Capitalize(l.work_environment)
                          \o " work environment - increased environmental exposure"),
           acc[3]>>
    ELSE <<acc[1] + work_risk, acc[2], acc[3]>>

WorkStep(acc, l) ==
    LET work_risk == WORK_ENV_SCORES(l.work_environment) IN
    IF work_risk > 0
    THEN <<acc[1] + work_risk,
           Append(acc[2], Capitalize(l.work_environment)
                          \o " work environment - increased environmental exposure"),
           acc[3]>>
    ELSE <<acc[1] + work_risk, acc[2], acc[3]>>

StressStep(acc, l) ==
    IF l.stress_level = None THEN acc
    ELSE LET stress_risk == STRESS_SCORES(l.stress_level) IN
         IF stress_risk > 15
         THEN <<acc[1] + stress_risk,
                Append(acc[2], "High stress level - impacts immune system and overall health"),
                acc[3]>>
         ELSE IF stress_risk > 0
         THEN <<acc[1] + stress_risk,
                Append(acc[2], "Moderate stress level - manageable with interventions"),
                acc[3]>>
         ELSE <<acc[1] + stress_risk, acc[2], acc[3]>>

DietStep(acc, l) ==
    IF l.diet_quality = None THEN acc
    ELSE IF l.diet_quality = "good"
    THEN <<acc[1], acc[2], Append(acc[3], "Good diet quality - supports immune function")>>
    ELSE IF l.diet_quality = "poor"
    THEN <<acc[1] + 15,
           Append(acc[2], "Poor diet quality - affects overall health resilience"), acc[3]>>
    ELSE acc

SleepStep(acc, l) ==
    IF l.sleep_hours = None THEN acc
    ELSE IF l.sleep_hours = "6-8"
    THEN <<acc[1], acc[2],
           Append(acc[3], "Adequate sleep - supports recovery and immune function")>>
    ELSE IF l.sleep_hours = "<6"
    THEN <<acc[1] + 15,
           Append(acc[2], "Insufficient sleep - weakens immune response"), acc[3]>>
    ELSE acc


\* AgeAdjust without the cap
AgeAdjust_NoCap(risk_score, age_range) ==
    risk_score * AgeMultiplier10(age_range) * (Scale \div 10)

\* AgeAdjust with the cap taken before the age multiplier
AgeAdjust_CapFirst(risk_score, age_range) ==
    Min(risk_score, 100) * AgeMultiplier10(age_range) * (Scale \div 10)

\* risk_score *= age_multiplier; min(risk_score, 100)
AgeAdjust(risk_score, age_range) ==
    Min(risk_score * AgeMultiplier10(age_range) * (Scale \div 10), Pts(100))

\* calculate_lifestyle_risk: <<score, risk_factors, positive_factors>>
calculate_lifestyle_risk(l) ==
    LET acc == SleepStep(DietStep(StressStep(WorkStep(ActivityStep(
                   SmokingStep(<<0, <<>>, <<>> >>, l), l), l), l), l), l)
    IN  <<AgeAdjust(acc[1], l.age_range), acc[2], acc[3]>>

----------------------------------------------------------------------------
(* Text constants: the string literals of health_report_service.py *)

TxtLow == <<"l","o","w">>
TxtMedium == <<"m","e","d","i","u","m">>
TxtHigh == <<"h","i","g","h">>
TxtUnknown == <<"u","n","k","n","o","w","n">>
TxtFemale == <<"f","e","m","a","l","e">>
TxtAsthma == <<"a","s","t","h","m","a">>
TxtCopd == <<"c","o","p","d">>
TxtBronchitis == <<"b","r","o","n","c","h","i","t","i","s">>
TxtLung == <<"l","u","n","g">>
TxtHeart == <<"h","e","a","r","t">>
TxtCardio == <<"c","a","r","d","i","o">>
TxtAllergy == <<"a","l","l","e","r","g","y">>
TxtPregnan == <<"p","r","e","g","n","a","n">>

\* `if x:` for an optional text
TruthyText(x) == x # NoneText /\ x # <<>>

\* `if data.medical_history:` for an optional list
TruthyList(x) == x # NoneList /\ x # <<>>

----------------------------------------------------------------------------
(* HealthReportService._calculate_vulnerability_multiplier *)


\* AgeFactor that lowers the multiplier for the youngest band
AgeFactor_TeenReduced(m, age_value) ==
    IF age_value \in {"51-65", "65+"} THEN m + 200
    ELSE IF age_value \in {"13-17"} THEN m - 100
    ELSE m

\* The age branch; the multiplier is accumulated in thousandths.
AgeFactor(m, age_value) ==
    IF age_value \in {"51-65", "65+"} THEN m + 200
    ELSE IF age_value \in {"13-17"} THEN m + 100
    ELSE m

\* Body of the loop over data.medical_history, for one condition.
ConditionFactor(m, condition) ==
    LET condition_lower == Lower(condition) IN
    IF \E x \in {TxtAsthma, TxtCopd, TxtBronchitis, TxtLung} : Contains(x, condition_lower)
    THEN m + 400
    ELSE IF Contains(TxtHeart, condition_lower) \/ Contains(TxtCardio, condition_lower)
    THEN m + 300
    ELSE IF Contains(TxtAllergy, condition_lower)
    THEN m + 100
    ELSE m

RECURSIVE HistoryFactor(_, _)
\* for condition in data.medical_history: ...
HistoryFactor(m, history) ==
    IF history = <<>> THEN m
    ELSE HistoryFactor(ConditionFactor(m, Head(history)), Tail(history))

\* any("pregnan" in c.lower() for c in data.medical_history)
AnyPregnan(history) ==
    \E i \in 1..Len(history) : Contains(TxtPregnan, Lower(history[i]))


\* PregnancyFactor comparing the gender without lower()
PregnancyFactor_CaseSensitive(m, data) ==
    IF TruthyText(data.gender) /\ data.gender = TxtFemale
       /\ TruthyList(data.medical_history)
       /\ AnyPregnan(data.medical_history)
    THEN m + 400
    ELSE m

PregnancyFactor(m, data) ==
    IF TruthyText(data.gender) /\ Lower(data.gender) = TxtFemale
       /\ TruthyList(data.medical_history)
       /\ AnyPregnan(data.medical_history)
    THEN m + 400
    ELSE m

\* round(multiplier, 2): thousandths to the nearest hundredth
Round2(m) == (m + 5) \div 10

\* The multiplier in hundredths (1.0 is 100).
calculate_vulnerability_multiplier(data) ==
    LET aged == AgeFactor(1000, data.age_range)
        scanned == IF TruthyList(data.medical_history)
                   THEN HistoryFactor(aged, data.medical_history)
                   ELSE aged
    IN  Round2(PregnancyFactor(scanned, data))

----------------------------------------------------------------------------
(* HealthReportService._calculate_environmental_risk and _get_risk_level *)


\* AirRisk as the fraction aqi / 500, not scaled to 0-100
AirRisk_Fraction(a) == Min((a * Scale) \div 500, Pts(100))

\* AirRisk starting again from 0 at the top of the scale, not held at 100
AirRisk_Wrapped(a) == ((a * Scale) \div 5) % Pts(100)

\* min((aqi / 500) * 100, 100)
AirRisk(a) == Min((a * Scale) \div 5, Pts(100))

\* contamination_risk.lower() if contamination_risk else "low"
RiskVal(contamination_risk) ==
    IF TruthyText(contamination_risk) THEN Lower(contamination_risk) ELSE TxtLow

\* soil_risk_map.get(soil_risk_val, 20)
SoilRisk(soil_risk_val) ==
    CASE soil_risk_val = TxtLow    -> Pts(10)
      [] soil_risk_val = TxtMedium -> Pts(40)
      [] soil_risk_val = TxtHigh   -> Pts(80)
      [] OTHER                     -> Pts(20)

\* water_risk_map.get(water_risk_val, 20)
WaterRisk(water_risk_val) ==
    CASE water_risk_val = TxtLow    -> Pts(10)
      [] water_risk_val = TxtMedium -> Pts(45)
      [] water_risk_val = TxtHigh   -> Pts(85)
      [] OTHER                      -> Pts(20)

\* (air_risk * 0.5) + (soil_risk * 0.25) + (water_risk * 0.25)
calculate_environmental_risk(a, soil, water) ==
    (AirRisk(a) \div 2) + (SoilRisk(RiskVal(soil)) \div 4) + (WaterRisk(RiskVal(water)) \div 4)


\* get_risk_level with the thresholds themselves in the lower level
get_risk_level_Inclusive(risk_score) ==
    IF risk_score <= Pts(35) THEN "low"
    ELSE IF risk_score <= Pts(65) THEN "medium"
    ELSE "high"

get_risk_level(risk_score) ==
    IF risk_score < Pts(35) THEN "low"
    ELSE IF risk_score < Pts(65) THEN "medium"
    ELSE "high"

----------------------------------------------------------------------------
(* HealthReportService.generate_report, from the fetched readings on *)


\* ApplyMultiplier without the cap
ApplyMultiplier_NoCap(env_risk_base, vulnerability_multiplier) ==
    (env_risk_base * vulnerability_multiplier) \div 100

\* min(env_risk_base * vulnerability_multiplier, 100)
ApplyMultiplier(env_risk_base, vulnerability_multiplier) ==
    Min((env_risk_base * vulnerability_multiplier) \div 100, Pts(100))


\* CombinedRisk with the two weights exchanged
CombinedRisk_Swapped(env_risk, lifestyle_risk) ==
    (env_risk * 4 + lifestyle_risk * 6) \div 10

\* CombinedRisk with the two dimensions weighted alike
CombinedRisk_EvenWeights(env_risk, lifestyle_risk) ==
    (env_risk * 5 + lifestyle_risk * 5) \div 10

\* (env_risk * 0.6) + (lifestyle_risk * 0.4)
CombinedRisk(env_risk, lifestyle_risk) ==
    (env_risk * 6 + lifestyle_risk * 4) \div 10

BuildReport(l, a, soil, water) ==
    LET env_risk_base == calculate_environmental_risk(a, soil, water)
        scored == IF l # NoLifestyle
                  THEN calculate_lifestyle_risk(l)
                  ELSE <<0, <<>>, <<>> >>
        vulnerability_multiplier ==
            IF l # NoLifestyle THEN calculate_vulnerability_multiplier(l) ELSE 100
        env_risk == ApplyMultiplier(env_risk_base, vulnerability_multiplier)
        combined_risk == CombinedRisk(env_risk, scored[1])
    IN  [ env_risk_base            |-> env_risk_base,
          environmental_risk       |-> env_risk,
          lifestyle_risk           |-> scored[1],
          lifestyle_risk_factors   |-> scored[2],
          lifestyle_positive_factors |-> scored[3],
          risk_score               |-> combined_risk,
          risk_level               |-> get_risk_level(combined_risk),
          vulnerability_multiplier |-> vulnerability_multiplier ]

----------------------------------------------------------------------------
(* HealthReportService: factors, recommendations, summary, feature vector *)

TxtModerate == <<"m","o","d","e","r","a","t","e">>
TxtHard == <<"h","a","r","d">>

\* water_data.ph = None (a number that no reading has)
NonePh == 0 - 1

\* pH 7.0, the default of the water parser, in tenths
NeutralPh == 7 * 10

UpperChar(c) ==
    IF \E i \in 1..26 : LowerChars[i] = c
    THEN UpperChars[CHOOSE i \in 1..26 : LowerChars[i] = c]
    ELSE c

\* str.capitalize()
CapitalizeText(s) ==
    IF s = <<>> THEN <<>> ELSE <<UpperChar(s[1])>> \o Lower(Tail(s))

\* The text as one string, as an f-string interpolates it
RECURSIVE Str(_)
Str(s) == IF s = <<>> THEN "" ELSE s[1] \o Str(Tail(s))

\* ContributingFactor(category, factor, impact, severity)
ContributingFactor(category, factor, impact, severity) ==
    [category |-> category, factor |-> factor, impact |-> impact, severity |-> severity]

\* HealthRecommendation(category, title, description, priority)
HealthRecommendation(category, title, description, priority) ==
    [category |-> category, title |-> title, description |-> description,
     priority |-> priority]

SmokingInteractionText ==
    "CRITICAL INTERACTION: Smoking + High Air Pollution dramatically increases cardiovascular risk."
AsthmaInteractionText == "CRITICAL INTERACTION: Asthma + High Air Pollution"

\* any("asthma" in c.lower() for c in medical_history)
RECURSIVE AnyAsthma(_)
AnyAsthma(history) ==
    IF history = <<>> THEN FALSE
    ELSE Contains(TxtAsthma, Lower(Head(history))) \/ AnyAsthma(Tail(history))

\* if lifestyle_data and aqi > 100, with the bound of the comparison inclusive
InteractionGuard_Inclusive(l, a) == l # NoLifestyle /\ a >= 100

\* if lifestyle_data and air_quality.data.aqi > 100
InteractionGuard(l, a) == l # NoLifestyle /\ a > 100

InteractionFactors(l, a) ==
    IF InteractionGuard(l, a)
    THEN (IF l.smoking_status = "current"
          THEN <<ContributingFactor("interaction", SmokingInteractionText,
                                    "negative", "high")>>
          ELSE <<>>)
         \o (IF TruthyList(l.medical_history) /\ AnyAsthma(l.medical_history)
             THEN <<ContributingFactor("interaction", AsthmaInteractionText,
                                       "negative", "high")>>
             ELSE <<>>)
    ELSE <<>>

AirFactors(a, pollutant) ==
    IF a > 100
    THEN <<ContributingFactor("environmental",
               "High AQI (" \o ToString(a) \o ") - Primary pollutant: " \o pollutant,
               "negative", "high")>>
    ELSE IF a > 50
    THEN <<ContributingFactor("environmental", "Moderate AQI (" \o ToString(a) \o ")",
                              "negative", "medium")>>
    ELSE <<>>

\* risk_val if risk_val in ["low", "medium", "high"] else "medium"
FactorSeverity(risk_val) ==
    IF risk_val \in {TxtLow, TxtMedium, TxtHigh} THEN Str(risk_val) ELSE "medium"

WaterFactors(water) ==
    IF TruthyText(water) /\ Lower(water) # TxtLow
    THEN <<ContributingFactor("environmental",
               Str(CapitalizeText(water)) \o " water contamination risk",
               "negative", FactorSeverity(Lower(water)))>>
    ELSE <<>>

SoilFactors(soil) ==
    LET soil_risk_val == RiskVal(soil)
    IN  IF soil_risk_val # TxtLow
        THEN <<ContributingFactor("environmental",
                   Str(CapitalizeText(soil)) \o " soil contamination risk",
                   "negative", FactorSeverity(soil_risk_val))>>
        ELSE <<>>

\* The lifestyle factors of one impact, from the first entries of the list
RECURSIVE LifestyleFactors(_, _)
LifestyleFactors(texts, impact) ==
    IF texts = <<>> THEN <<>>
    ELSE <<ContributingFactor("lifestyle", Head(texts), impact, "medium")>>
         \o LifestyleFactors(Tail(texts), impact)

\* The environmental factors with soil before water
EnvironmentalFactors_SoilFirst(a, pollutant, soil, water) ==
    AirFactors(a, pollutant) \o SoilFactors(soil) \o WaterFactors(water)

EnvironmentalFactors(a, pollutant, soil, water) ==
    AirFactors(a, pollutant) \o WaterFactors(water) \o SoilFactors(soil)

generate_contributing_factors(l, a, pollutant, soil, water, risk_factors, positive_factors) ==
    InteractionFactors(l, a)
    \o EnvironmentalFactors(a, pollutant, soil, water)
    \o LifestyleFactors(Take(risk_factors, 3), "negative")
    \o LifestyleFactors(Take(positive_factors, 3), "positive")

\* LifestyleService.generate_lifestyle_recommendations
generate_lifestyle_recommendations(l) ==
    (IF l.smoking_status = "current"
     THEN <<"Consider smoking cessation programs - single most impactful health improvement">>
     ELSE <<>>)
    \o (IF l.activity_level \in {"sedentary", "moderate"}
        THEN <<"Increase physical activity to 150+ minutes weekly - reduces environmental health risks">>
        ELSE <<>>)
    \o (IF l.stress_level = "high"
        THEN <<"Practice stress management techniques - meditation, yoga, or counseling">>
        ELSE <<>>)
    \o (IF l.diet_quality = "poor"
        THEN <<"Improve diet with more fruits, vegetables, and whole grains">>
        ELSE <<>>)
    \o (IF l.sleep_hours = "<6"
        THEN <<"Aim for 7-9 hours of sleep nightly for optimal health">>
        ELSE <<>>)

AirRecommendations(a) ==
    IF a > 100
    THEN <<HealthRecommendation("environmental", "Monitor Air Quality Daily",
               "Check AQI before outdoor activities. Limit exertion when AQI exceeds 100.",
               "high")>>
    ELSE <<>>

\* "high" if water_data.contamination_risk == "high" else "medium"
WaterPriority(water) == IF water = TxtHigh THEN "high" ELSE "medium"

WaterRecommendations(water, hardness) ==
    IF water \in {TxtMedium, TxtHigh}
    THEN <<HealthRecommendation("environmental", "Water Safety",
               "Consider using a certified water filter or drinking bottled water.",
               WaterPriority(water))>>
    ELSE IF hardness = TxtHard
    THEN <<HealthRecommendation("environmental", "Hard Water Care",
               "Your water is hard. Use moisturizers to prevent skin dryness.", "low")>>
    ELSE <<>>

SoilRecommendations(soil) ==
    IF soil \in {TxtMedium, TxtHigh}
    THEN <<HealthRecommendation("environmental", "Soil Safety Precautions",
               "Wash hands thoroughly after gardening or outdoor activities.", "medium")>>
    ELSE <<>>

RECURSIVE LifestyleRecommendations(_)
LifestyleRecommendations(lifestyle_recs) ==
    IF lifestyle_recs = <<>> THEN <<>>
    ELSE <<HealthRecommendation("lifestyle", "Lifestyle Improvement",
                                Head(lifestyle_recs), "medium")>>
         \o LifestyleRecommendations(Tail(lifestyle_recs))

generate_recommendations(l, a, soil, water, hardness) ==
    AirRecommendations(a)
    \o WaterRecommendations(water, hardness)
    \o SoilRecommendations(soil)
    \o (IF l # NoLifestyle
        THEN LifestyleRecommendations(Take(generate_lifestyle_recommendations(l), 2))
        ELSE <<>>)

\* summaries.get(risk_level, "")
SummaryTemplate(risk_level) ==
    CASE risk_level = "low"    -> "Your overall health risk is low. "
      [] risk_level = "medium" -> "Your health risk is moderate. "
      [] risk_level = "high"   -> "Your health risk is elevated. "
      [] OTHER                 -> ""

EnvironmentPrimaryText ==
    "Environmental factors (Air/Water/Soil) are the primary concern. "
LifestylePrimaryText == "Lifestyle factors are the primary concern. "
BothText == "Both environmental and lifestyle factors contribute to your risk. "

\* The qualifier with the two comparisons at a factor of 1 and not 1.5
SummaryQualifier_NoMargin(env_risk, lifestyle_risk) ==
    IF env_risk > lifestyle_risk THEN EnvironmentPrimaryText
    ELSE IF lifestyle_risk > env_risk THEN LifestylePrimaryText
    ELSE BothText

\* env_risk > lifestyle_risk * 1.5 / lifestyle_risk > env_risk * 1.5
SummaryQualifier(env_risk, lifestyle_risk) ==
    IF 2 * env_risk > 3 * lifestyle_risk THEN EnvironmentPrimaryText
    ELSE IF 2 * lifestyle_risk > 3 * env_risk THEN LifestylePrimaryText
    ELSE BothText

generate_report_summary(risk_level, env_risk, lifestyle_risk) ==
    SummaryTemplate(risk_level) \o SummaryQualifier(env_risk, lifestyle_risk)

\* {"low": 1, "medium": 2, "high": 3}.get(water_data.contamination_risk, 1)
WaterRiskFeature(water) ==
    CASE water = TxtLow -> 1 [] water = TxtMedium -> 2 [] water = TxtHigh -> 3
      [] OTHER -> 1

\* 1 if lifestyle_data.smoking_status.value != "never" else 0
SmokingFeature(smoking_status) == IF smoking_status # "never" THEN 1 ELSE 0

\* The feature vector: a dict from key to number (pH in tenths)
create_feature_vector(l, a, ph_soil, water, ph_water) ==
    LET features == [k \in {"aqi", "soil_ph", "water_ph", "water_risk"} |->
                        CASE k = "aqi" -> a
                          [] k = "soil_ph" -> ph_soil
                          [] k = "water_ph" -> ph_water
                          [] k = "water_risk" -> WaterRiskFeature(water)]
    IN  IF l # NoLifestyle
        THEN [k \in DOMAIN features \cup {"smoking"} |->
                 IF k = "smoking" THEN SmokingFeature(l.smoking_status)
                 ELSE features[k]]
        ELSE features

\* generate_report from the readings on: the scores, then the four texts
generate_report(in) ==
    LET s == BuildReport(in.l, in.a, in.soil, in.water)
    IN  [ env_risk_base            |-> s.env_risk_base,
          environmental_risk       |-> s.environmental_risk,
          lifestyle_risk           |-> s.lifestyle_risk,
          lifestyle_risk_factors   |-> s.lifestyle_risk_factors,
          lifestyle_positive_factors |-> s.lifestyle_positive_factors,
          risk_score               |-> s.risk_score,
          risk_level               |-> s.risk_level,
          vulnerability_multiplier |-> s.vulnerability_multiplier,
          contributing_factors     |->
              generate_contributing_factors(in.l, in.a, in.pollutant, in.soil, in.water,
                  s.lifestyle_risk_factors, s.lifestyle_positive_factors),
          health_recommendations   |->
              generate_recommendations(in.l, in.a, in.soil, in.water, in.hardness),
          report_summary           |->
              generate_report_summary(s.risk_level, s.environmental_risk,
                                      s.lifestyle_risk),
          feature_vector           |->
              create_feature_vector(in.l, in.a, in.soil_ph, in.water, in.water_ph) ]

----------------------------------------------------------------------------
(* The collaborators of generate_report: air_quality_service.py,           *)
(* perplexity_soil_service.py, water_service.py                            *)

\* What a call gave back: a value, or an exception
Returned(value) == [raised |-> FALSE, value |-> value]
Raised == [raised |-> TRUE]

\* aqi_mapping.get(aqi_openweather, 100)
aqi_mapping(aqi_openweather) ==
    CASE aqi_openweather = 1 -> 25 [] aqi_openweather = 2 -> 75
      [] aqi_openweather = 3 -> 125 [] aqi_openweather = 4 -> 200
      [] aqi_openweather = 5 -> 350 [] OTHER -> 100

\* AirQualityService.get_air_quality: remote is what the OpenWeather request
\* gave, a level and the pollutant with the highest share, or a failure
get_air_quality(api_key, remote) ==
    IF ~api_key \/ remote.raised THEN Raised
    ELSE Returned([aqi |-> aqi_mapping(remote.value.aqi), primary_pollutant |-> remote.value.pollutant, data_source |-> "openweather"])

\* The text _query_perplexity returns when the request fails
MockSoilText ==
    <<"S","o","i","l"," ","t","y","p","e"," ","i","s"," ","l","o","a","m"," ","w","i",
      "t","h"," ","p","H"," ","6",".","5","."," ","N","i","t","r","o","g","e","n",",",
      " ","p","h","o","s","p","h","o","r","u","s",","," ","a","n","d"," ","p","o","t",
      "a","s","s","i","u","m"," ","l","e","v","e","l","s"," ","a","r","e"," ","m","o",
      "d","e","r","a","t","e","."," ","N","o"," ","h","e","a","v","y"," ","m","e","t",
      "a","l"," ","c","o","n","t","a","m","i","n","a","t","i","o","n"," ","d","e","t",
      "e","c","t","e","d","."," ","C","o","n","t","a","m","i","n","a","t","i","o","n",
      " ","r","i","s","k"," ","i","s"," ","l","o","w","."," ","H","e","a","l","t","h",
      " ","i","m","p","l","i","c","a","t","i","o","n","s"," ","a","r","e"," ","m","i",
      "n","i","m","a","l",".">>

TxtContamination == <<"c","o","n","t","a","m","i","n","a","t","i","o","n">>
TxtPollution == <<"p","o","l","l","u","t","i","o","n">>
TxtToxic == <<"t","o","x","i","c">>
TxtHazardous == <<"h","a","z","a","r","d","o","u","s">>
TxtLead == <<"l","e","a","d">>
TxtArsenic == <<"a","r","s","e","n","i","c">>
TxtMercury == <<"m","e","r","c","u","r","y">>
TxtCadmium == <<"c","a","d","m","i","u","m">>

\* PerplexitySoilService._query_perplexity: the content of the answer, or the
\* mock text on any failure of the request
query_perplexity(remote) == IF remote.raised THEN MockSoilText ELSE remote.value

\* any(keyword in text_lower for keyword in keywords)
AnyIn(keywords, text_lower) == \E k \in keywords : Contains(k, text_lower)

Digits == <<"0","1","2","3","4","5","6","7","8","9">>
IsDigit(c) == \E d \in 1..10 : Digits[d] = c
DigitValue(c) == (CHOOSE d \in 1..10 : Digits[d] = c) - 1
IsSpace(c) == c = " "

\* The position after the white space that starts at position i
RECURSIVE SkipSpaces(_, _)
SkipSpaces(s, i) == IF i <= Len(s) /\ IsSpace(s[i]) THEN SkipSpaces(s, i + 1) ELSE i

\* The position after the optional "of", "is" or ":" at position i
SkipLink(s, i) ==
    IF i + 1 <= Len(s) /\ SubSeq(s, i, i + 1) \in {<<"o","f">>, <<"i","s">>} THEN i + 2
    ELSE IF i <= Len(s) /\ s[i] = ":" THEN i + 1
    ELSE i

\* Where the number of "ph <number>" starts when "ph" is at position i, or 0
NumberAfterPh(s, i) ==
    LET a == SkipSpaces(s, i + 2)
        b == SkipSpaces(s, SkipLink(s, a))
    IN  IF b <= Len(s) /\ IsDigit(s[b]) THEN b
        ELSE IF a <= Len(s) /\ IsDigit(s[a]) THEN a
        ELSE 0

\* The digits from position i on, read as an integer
RECURSIVE ReadInt(_, _, _)
ReadInt(s, i, acc) ==
    IF i <= Len(s) /\ IsDigit(s[i]) THEN ReadInt(s, i + 1, 10 * acc + DigitValue(s[i])) ELSE <<acc, i>>

\* float(ph_match.group(1)) in tenths, for a number with at most one decimal
ReadTenths(s, i) ==
    LET whole == ReadInt(s, i, 0)
        j == whole[2]
    IN  IF j + 1 <= Len(s) /\ s[j] = "." /\ IsDigit(s[j + 1])
        THEN 10 * whole[1] + DigitValue(s[j + 1])
        ELSE 10 * whole[1]

\* re.search(r'ph\s*(?:of|is|:)?\s*(\d+\.?\d*)', text_lower): the pH in
\* tenths, or NonePh when nothing matches
SearchPh(text_lower) ==
    LET hits == {i \in 1..(Len(text_lower) - 1) : SubSeq(text_lower, i, i + 1) = <<"p","h">> /\ NumberAfterPh(text_lower, i) > 0}
    IN  IF hits = {} THEN NonePh
        ELSE LET first == CHOOSE i \in hits : \A j \in hits : i <= j
             IN  ReadTenths(text_lower, NumberAfterPh(text_lower, first))

\* PerplexitySoilService._extract_soil_parameters: the pH and the contamination risk
extract_soil_parameters(response_text) ==
    LET text_lower == Lower(response_text)
        heavy_metals == {m \in {TxtLead, TxtArsenic, TxtMercury, TxtCadmium} : Contains(m, text_lower)}
    IN  [ ph |-> SearchPh(text_lower),
          contamination_risk |->
              IF AnyIn({TxtContamination, TxtPollution, TxtToxic, TxtHazardous}, text_lower) THEN TxtHigh
              ELSE IF heavy_metals # {} THEN TxtMedium
              ELSE TxtLow ]

\* PerplexitySoilService.research_soil_data
research_soil_data(api_key, remote) ==
    IF ~api_key THEN Raised
    ELSE LET soil_data == extract_soil_parameters(query_perplexity(remote))
         IN  Returned([ph |-> soil_data.ph, contamination_risk |-> soil_data.contamination_risk, data_source |-> "perplexity_ai"])

TxtSoft == <<"s","o","f","t">>
TxtUnsafe == <<"u","n","s","a","f","e">>
TxtBoil == <<"b","o","i","l">>
TxtContaminated == <<"c","o","n","t","a","m","i","n","a","t","e","d">>
TxtAvoid == <<"a","v","o","i","d">>
TxtCaution == <<"c","a","u","t","i","o","n">>
TxtFilter == <<"f","i","l","t","e","r">>
TxtSoftCaps == <<"S","o","f","t">>
TxtModerateCaps == <<"M","o","d","e","r","a","t","e">>

\* WaterQualityService._parse_research_result
parse_research_result(text) ==
    LET text_lower == Lower(text)
        ph_match == SearchPh(text_lower)
    IN  [ ph |-> IF ph_match = NonePh THEN NeutralPh ELSE ph_match,
          hardness |-> IF Contains(TxtSoft, text_lower) THEN TxtSoft
                       ELSE IF Contains(TxtHard, text_lower) THEN TxtHard
                       ELSE TxtModerate,
          contamination_risk |->
              IF AnyIn({TxtUnsafe, TxtBoil, TxtContaminated, TxtAvoid}, text_lower) THEN TxtHigh
              ELSE IF AnyIn({TxtCaution, TxtFilter, TxtModerate}, text_lower) THEN TxtMedium
              ELSE TxtLow,
          data_source |-> "perplexity" ]

\* WaterQualityService._generate_mock_water_data: drawn is what the generator
\* seeded with the coordinates draws; it raises when the seed cannot be
\* computed (int() of coordinates that are not finite)
generate_mock_water_data(drawn) ==
    IF drawn.raised THEN Raised
    ELSE Returned([ph |-> drawn.value.ph, hardness |-> drawn.value.hardness, contamination_risk |-> drawn.value.risk, data_source |-> "mock_generated"])

\* WaterQualityService.get_water_quality: research with a key, generated data
\* without one and on any failure of the research
get_water_quality(api_key, remote, drawn) ==
    IF api_key /\ ~remote.raised THEN Returned(parse_research_result(remote.value))
    ELSE generate_mock_water_data(drawn)

----------------------------------------------------------------------------
(* HealthReportService.generate_report, up to the call of the engine *)

\* The AirQualityResponse built when get_air_quality raises
AirFallback == [aqi |-> 50, primary_pollutant |-> "PM2.5", data_source |-> "mock_fallback"]
\* The dict safe_soil_research returns when research_soil_data raises
SoilFallback == [ph |-> NeutralPh, contamination_risk |-> TxtLow, data_source |-> "mock_fallback"]
\* The dict safe_water_quality returns when get_water_quality raises
WaterFallback == [ph |-> NeutralPh, hardness |-> TxtModerate, contamination_risk |-> TxtLow, data_source |-> "mock_fallback"]

\* try: air_quality = await get_air_quality(...) / except Exception: fallback
AirOrFallback(outcome) == IF outcome.raised THEN AirFallback ELSE outcome.value

\* safe_soil_research without its except clause
safe_soil_research_Reraise(outcome) == outcome

\* safe_soil_research: what the coroutine gives to gather
safe_soil_research(outcome) == IF outcome.raised THEN Returned(SoilFallback) ELSE outcome

\* safe_water_quality: what the coroutine gives to gather
safe_water_quality(outcome) == IF outcome.raised THEN Returned(WaterFallback) ELSE outcome

\* gather with the results in the order in which the coroutines finished
gather_ByCompletion(soil_result, water_result, order) ==
    IF soil_result.raised \/ water_result.raised THEN Raised
    ELSE IF order[1] = "soil" THEN Returned(<<soil_result.value, water_result.value>>)
    ELSE Returned(<<water_result.value, soil_result.value>>)

\* asyncio.gather(soil_task, water_task): the results in the order of the
\* arguments, or the first exception
gather(soil_result, water_result, order) ==
    IF soil_result.raised \/ water_result.raised THEN Raised
    ELSE Returned(<<soil_result.value, water_result.value>>)

\* dict.get(key, default)
Get(dict, key, default) == IF key \in DOMAIN dict THEN dict[key] ELSE default

\* ph=... if isinstance(soil_data_dict.get("ph"), (int, float)) else 7.0
AdaptedSoilPh(soil_data_dict) ==
    IF Get(soil_data_dict, "ph", NonePh) = NonePh THEN NeutralPh ELSE soil_data_dict.ph

\* WaterDataResponse(**water_data) and the SoilDataResponse adapter: the
\* readings the engine is given
AdaptedReadings(l, air, soil_data_dict, water_data) ==
    [ l |-> l, a |-> air.aqi, pollutant |-> air.primary_pollutant,
      soil |-> Get(soil_data_dict, "contamination_risk", TxtUnknown),
      soil_ph |-> AdaptedSoilPh(soil_data_dict),
      water |-> Get(water_data, "contamination_risk", NoneText),
      water_ph |-> Get(water_data, "ph", NonePh),
      hardness |-> Get(water_data, "hardness", NoneText) ]

----------------------------------------------------------------------------
(* Routers: routers/lifestyle.py, routers/health_report.py, routers/payments.py *)

\* raise HTTPException(status_code=...), and an exception no handler catches
HTTPException(status_code) == [status_code |-> status_code]
\* RedirectResponse(url=..., status_code=303)
RedirectResponse(url) == [status_code |-> 303, url |-> url]
\* A handler that returns None: FastAPI answers 200 with the body null
NullResponse == [status_code |-> 200, body |-> None]

\* db.query(Model).filter(Model.id == id).first()
HasId(table, id) == \E i \in 1..Len(table) : table[i].id = id
FirstWithId(table, id) == table[CHOOSE i \in 1..Len(table) : table[i].id = id /\ \A j \in 1..(i - 1) : table[j].id # id]
\* The id the table gives the next row
NextId(table) == Len(table) + 1

\* LifestyleData(...) as submit_lifestyle_data builds it: the columns it
\* passes; submitted is not a column, it remembers the input for the properties
LifestyleDataRow(id, lifestyle) ==
    [ id |-> id, age_range |-> lifestyle.age_range, gender |-> lifestyle.gender,
      smoking_status |-> lifestyle.smoking_status,
      activity_level |-> lifestyle.activity_level,
      work_environment |-> lifestyle.work_environment,
      diet_quality |-> lifestyle.diet_quality, sleep_hours |-> lifestyle.sleep_hours,
      stress_level |-> lifestyle.stress_level, submitted |-> lifestyle ]

\* LifestyleInput(...) from a stored row: a column that was never set reads None
LifestyleInputOf(lifestyle_record) ==
    [ age_range |-> lifestyle_record.age_range, gender |-> lifestyle_record.gender,
      smoking_status |-> lifestyle_record.smoking_status,
      activity_level |-> lifestyle_record.activity_level,
      work_environment |-> lifestyle_record.work_environment,
      diet_quality |-> lifestyle_record.diet_quality,
      sleep_hours |-> lifestyle_record.sleep_hours,
      stress_level |-> lifestyle_record.stress_level,
      medical_history |-> Get(lifestyle_record, "medical_history", NoneList) ]

\* LifestyleInput(...) from the direct inputs of the request
DirectLifestyleInput(req) ==
    [ age_range |-> req.age_range, gender |-> NoneText,
      smoking_status |-> req.smoking_status,
      activity_level |-> IF req.activity_level = None THEN "moderate" ELSE req.activity_level,
      work_environment |-> IF req.work_environment = None THEN "indoor" ELSE req.work_environment,
      diet_quality |-> None, sleep_hours |-> None, stress_level |-> None,
      medical_history |-> NoneList ]

\* lifestyle_data of generate_health_report, when the request does not end in 404
RequestLifestyle(table, req) ==
    IF req.lifestyle_data_id # 0 THEN LifestyleInputOf(FirstWithId(table, req.lifestyle_data_id))
    ELSE IF req.age_range # None /\ req.smoking_status # None THEN DirectLifestyleInput(req)
    ELSE NoLifestyle

\* HealthReport(...) as generate_health_report builds it; is_paid and
\* stripe_session_id take the defaults of their columns
HealthReportRow(id, report_data) ==
    [ id |-> id, is_paid |-> 0, stripe_session_id |-> None,
      risk_score |-> report_data.risk_score, risk_level |-> report_data.risk_level ]

\* persist with report_id read before the row is refreshed
persist_IdBeforeRefresh(table, row, fault) ==
    CASE fault = "none" -> [table |-> Append(table, row), report_id |-> row.id, is_paid |-> row.is_paid]
      [] fault = "refresh" -> [table |-> Append(table, row), report_id |-> row.id, is_paid |-> 0]
      [] OTHER -> [table |-> table, report_id |-> 0, is_paid |-> 0]

\* try: db.add; db.commit; db.refresh; report_id = id; is_paid = is_paid
\* except: db.rollback().  fault names the call that raises, if any; a row that
\* was committed stays when refresh raises
persist(table, row, fault) ==
    CASE fault = "none" -> [table |-> Append(table, row), report_id |-> row.id, is_paid |-> row.is_paid]
      [] fault = "refresh" -> [table |-> Append(table, row), report_id |-> 0, is_paid |-> 0]
      [] OTHER -> [table |-> table, report_id |-> 0, is_paid |-> 0]

\* HealthReportResponse(...): what generate_health_report answers
HealthReportResponse(report_id, is_paid, report_data) ==
    [ status_code |-> 200, report_id |-> report_id, is_paid |-> is_paid,
      risk_score |-> report_data.risk_score, risk_level |-> report_data.risk_level,
      environmental_risk |-> report_data.environmental_risk,
      lifestyle_risk |-> report_data.lifestyle_risk,
      report_summary |-> report_data.report_summary,
      contributing_factors |-> report_data.contributing_factors,
      health_recommendations |-> report_data.health_recommendations,
      feature_vector |-> report_data.feature_vector,
      vulnerability_multiplier |-> report_data.vulnerability_multiplier ]

\* LifestyleResponse(...): what submit_lifestyle_data answers
LifestyleResponse(id, result) ==
    [ status_code |-> 200, id |-> id, lifestyle_risk_score |-> result[1],
      risk_factors |-> result[2], positive_factors |-> result[3] ]

\* f"REP{report.id}T{int(datetime.utcnow().timestamp())}"
OrderId(report_id, timestamp) == "REP" \o ToString(report_id) \o "T" \o ToString(timestamp)

\* hashlib.md5(...).hexdigest(): a digest stands for the text it was made of
md5(text) == "md5(" \o text \o ")"

\* settings.AIRPAY_MERCHANT_ID, settings.AIRPAY_SECRET_KEY
AIRPAY_MERCHANT_ID == "merchant"
AIRPAY_SECRET_KEY == "secret"

\* checksum_string of airpay_callback, with the key it ends in
checksum_string(form, secret_key) ==
    form.TRANSACTIONSTATUS \o "~:" \o form.TRANSACTIONID \o "~:" \o form.APTRANSACTIONID \o "~:" \o form.AMOUNT \o "~:" \o form.TRANSACTIONTIME \o "~:" \o form.MESSAGE \o "~:" \o AIRPAY_MERCHANT_ID \o "~:" \o (IF form.CUSTOMVAR = None THEN "" ELSE form.CUSTOMVAR) \o "~:" \o secret_key

\* calculated_checksum of airpay_callback
calculated_checksum(form) == md5(checksum_string(form, AIRPAY_SECRET_KEY))

\* os.getenv("FRONTEND_URL", "http://localhost:5173") + "/report"
frontend_url == "http://localhost:5173" \o "/report"

\* db.query(HealthReport).filter(HealthReport.stripe_session_id == TRANSACTIONID).first()
HasOrder(table, transaction_id) == \E i \in 1..Len(table) : table[i].stripe_session_id = transaction_id
FirstWithOrder(table, transaction_id) ==
    CHOOSE i \in 1..Len(table) : table[i].stripe_session_id = transaction_id /\ \A j \in 1..(i - 1) : table[j].stripe_session_id # transaction_id

\* airpay_callback: the table after it and its answer
airpay_callback(table, form) ==
    LET checksum == calculated_checksum(form) IN
    IF form.TRANSACTIONSTATUS = "200"
    THEN IF HasOrder(table, form.TRANSACTIONID)
         THEN [ table |-> [table EXCEPT ![FirstWithOrder(table, form.TRANSACTIONID)].is_paid = 1],
                response |-> RedirectResponse(frontend_url \o "?payment=success") ]
         ELSE [table |-> table, response |-> RedirectResponse(frontend_url \o "?payment=failed")]
    ELSE [table |-> table, response |-> NullResponse]

\* The address create_airpay_order lets through without payment
BypassEmail == <<"a","b","h","y","a","m","m","a","t","h","7","8","@","g","a","m","i","l",".","c","o","m">>

\* create_airpay_order for a report that exists: the table after it and its
\* answer; reached is whether the payment page could be fetched
create_airpay_order(table, req, timestamp, reached) ==
    LET i == CHOOSE k \in 1..Len(table) : table[k].id = req.report_id /\ \A j \in 1..(k - 1) : table[j].id # req.report_id IN
    IF Lower(req.buyerEmail) = BypassEmail
    THEN [ table |-> [table EXCEPT ![i].is_paid = 1],
           response |-> [status_code |-> 200, is_bypassed |-> TRUE, report_id |-> table[i].id] ]
    ELSE [ table |-> [table EXCEPT ![i].stripe_session_id = OrderId(table[i].id, timestamp)],
           response |-> IF reached THEN [status_code |-> 200, body |-> "html"] ELSE HTTPException(500) ]

----------------------------------------------------------------------------
(* Inputs *)

\* The AQI scale of AirQualityData.aqi
MaxAqi == 500

\* Longest medical history drawn
MaxHistory == 2

StressLevels == {None, "low", "medium", "high"}
DietQualities == {None, "poor", "average", "good"}
SleepHours == {None, "<6", "6-8", ">8"}
ContaminationRisks == {TxtLow, TxtMedium, TxtHigh, TxtUnknown}

\* Medical history entries and genders as a user may type them
CondHeartDisease == <<"h","e","a","r","t"," ","d","i","s","e","a","s","e">>
CondAsthmaCaps == <<"A","s","t","h","m","a">>
CondCopdCaps == <<"C","O","P","D">>
CondPollenAllergy == <<"p","o","l","l","e","n"," ","a","l","l","e","r","g","y">>
CondPregnancy == <<"P","r","e","g","n","a","n","c","y">>
CondDiabetes == <<"d","i","a","b","e","t","e","s">>
CondAsthmaHeart == <<"a","s","t","h","m","a",","," ","h","e","a","r","t">>
CondHeartAllergy == <<"h","e","a","r","t"," ","a","l","l","e","r","g","y">>
GenderFemaleCaps == <<"F","e","m","a","l","e">>
GenderMale == <<"m","a","l","e">>

Conditions ==
    {TxtAsthma, CondHeartDisease, CondAsthmaCaps, CondCopdCaps, CondPollenAllergy,
     CondPregnancy, CondDiabetes, CondAsthmaHeart, CondHeartAllergy}
Genders == {NoneText, TxtFemale, GenderFemaleCaps, GenderMale}

\* Lists over S of length at most n
RECURSIVE ListsUpTo(_, _)
ListsUpTo(S, n) ==
    IF n = 0 THEN {<<>>}
    ELSE LET shorter == ListsUpTo(S, n - 1)
         IN  shorter \cup {Append(h, c) : h \in shorter, c \in S}

Histories(S) == {NoneList} \cup ListsUpTo(S, MaxHistory)

\* Every profile that passes validation, without medical history
LifestyleProfiles ==
    [ age_range : AgeRanges, gender : {NoneText}, smoking_status : SmokingStatuses,
      activity_level : ActivityLevels, work_environment : WorkEnvironments,
      diet_quality : DietQualities, sleep_hours : SleepHours,
      stress_level : StressLevels, medical_history : {NoneList} ]

\* Profiles that differ in what the vulnerability multiplier reads
VulnerabilityProfiles ==
    [ age_range : AgeRanges, gender : Genders, smoking_status : {"never"},
      activity_level : {"active"}, work_environment : {"indoor"},
      diet_quality : {None}, sleep_hours : {None},
      stress_level : {None}, medical_history : Histories(Conditions) ]

\* Readings with a current smoker without medical history at AQI 150
ScenarioInputs ==
    [ l : {p \in LifestyleProfiles : p.smoking_status = "current"},
      a : {150}, soil : ContaminationRisks, water : ContaminationRisks,
      pollutant : {"PM2.5"}, soil_ph : {NeutralPh}, water_ph : {NeutralPh},
      hardness : {TxtModerate} ]

\* The whole AQI scale, with and without a profile
SweepProfiles ==
    {NoLifestyle}
    \cup [ age_range : {"13-17", "26-35", "65+"}, gender : {TxtFemale},
           smoking_status : {"never"},
           activity_level : {"active"}, work_environment : {"indoor"},
           diet_quality : {None}, sleep_hours : {None}, stress_level : {None},
           medical_history : {NoneList, <<TxtAsthma, CondHeartDisease>>} ]
SweepInputs ==
    [ l : SweepProfiles, a : 0..MaxAqi,
      soil : ContaminationRisks, water : ContaminationRisks,
      pollutant : {"PM2.5"}, soil_ph : {NeutralPh}, water_ph : {NeutralPh},
      hardness : {TxtModerate} ]

\* Vulnerable profiles at some AQI values
AqiSamples == {0, 50, 51, 100, 101, 150, 300, MaxAqi}
VulnerableInputs ==
    [ l : [ age_range : {"13-17", "36-50", "65+"}, gender : {TxtFemale, GenderMale},
            smoking_status : {"former"},
            activity_level : {"sedentary"}, work_environment : {"outdoor"},
            diet_quality : {"poor"}, sleep_hours : {"<6"}, stress_level : {"high"},
            medical_history :
                Histories({TxtAsthma, CondHeartDisease, CondPregnancy}) ],
      a : AqiSamples, soil : {TxtLow, TxtHigh}, water : {TxtLow, TxtHigh},
      pollutant : {"PM2.5"}, soil_ph : {NeutralPh}, water_ph : {NeutralPh},
      hardness : {TxtModerate} ]

ReportInputs == ScenarioInputs \cup SweepInputs \cup VulnerableInputs

\* Contamination risk texts a reading may carry: the three the maps know, one
\* in another case, two the maps do not know, and the empty text
TxtHighCaps == <<"H","i","g","h">>
TxtSevere == <<"s","e","v","e","r","e">>
SoilRiskTexts == {TxtLow, TxtMedium, TxtHigh, TxtHighCaps, TxtUnknown, <<>>}
\* WaterDataResponse.contamination_risk is optional as well
WaterRiskTexts ==
    {TxtLow, TxtMedium, TxtHigh, TxtHighCaps, TxtUnknown, TxtSevere, <<>>, NoneText}

\* WaterDataResponse.hardness: parsed, generated, or missing
TxtHardCaps == <<"H","a","r","d">>
Hardnesses == {TxtHard, TxtHardCaps, TxtModerate, NoneText}

\* AirQualityData.aqi is any int: values below, on and above the scale
AqiEdges == {0 - 100, 0 - 1, 0, 50, 51, 100, 101, 150, MaxAqi, MaxAqi + 1, 2 * MaxAqi}

\* Profiles with every smoking status, with and without asthma on record, and
\* with the worst and the best of the other habits
\* A profile whose optional answers are none of the documented values
\* (LifestyleInput declares them as Optional[str])
UnrecognisedProfiles ==
    { [ age_range |-> "26-35", gender |-> NoneText, smoking_status |-> "never",
        activity_level |-> "active", work_environment |-> "indoor",
        diet_quality |-> "vegan", sleep_hours |-> "9-10", stress_level |-> "extreme",
        medical_history |-> NoneList ] }

EngineProfiles ==
    {NoLifestyle} \cup UnrecognisedProfiles
    \cup { [ age_range |-> "26-35", gender |-> NoneText, smoking_status |-> s,
             activity_level |-> h[1], work_environment |-> h[2],
             diet_quality |-> h[3], sleep_hours |-> h[4], stress_level |-> h[5],
             medical_history |-> m ] :
           s \in SmokingStatuses,
           h \in { <<"sedentary", "outdoor", "poor", "<6", "high">>,
                   <<"active", "indoor", "good", "6-8", "low">> },
           m \in {NoneList, <<CondAsthmaCaps>>, <<CondHeartDisease>>,
                  <<CondHeartDisease, TxtAsthma>>} }

\* Every reading the response schemas admit, over the values above
AdmittedInputs ==
    [ l : EngineProfiles, a : AqiEdges, soil : SoilRiskTexts, water : WaterRiskTexts,
      pollutant : {"PM2.5"}, soil_ph : {NeutralPh}, water_ph : {NeutralPh},
      hardness : {TxtHard, TxtHardCaps, NoneText} ]

\* Readings without a water pH
AdmittedInputsNoPh ==
    [ l : {p \in EngineProfiles : p = NoLifestyle \/ p.medical_history = NoneList},
      a : {0, 150}, soil : {TxtLow}, water : WaterRiskTexts,
      pollutant : {"O3"}, soil_ph : {NeutralPh - 5}, water_ph : {NonePh},
      hardness : Hardnesses ]

\* First readings of a place that is then read again
RepeatInputs ==
    [ l : {NoLifestyle}
          \cup [ age_range : {"65+"}, gender : {TxtFemale},
                 smoking_status : {"current"},
                 activity_level : {"sedentary"}, work_environment : {"indoor"},
                 diet_quality : {None}, sleep_hours : {None}, stress_level : {None},
                 medical_history : {NoneList, <<TxtAsthma, CondHeartDisease>>} ],
      a : (0..MaxAqi) \cup AqiEdges, soil : {TxtLow, TxtHigh},
      water : {TxtLow, TxtUnknown},
      pollutant : {"PM2.5"}, soil_ph : {NeutralPh}, water_ph : {NeutralPh},
      hardness : {TxtModerate} ]

\* The AQI of the second reading: the same, one more, or a later edge
LaterAqi(a) == {a, a + 1} \cup {x \in AqiEdges : x > a}

\* Scores given to _get_risk_level: every half point of the scale and the
\* neighbours of the two thresholds
ScoreSamples ==
    {k * (Scale \div 2) : k \in 0..200}
    \cup {Pts(35) - 10, Pts(35) - 1, Pts(35) + 1, Pts(65) - 10, Pts(65) - 1, Pts(65) + 1}

\* Answers of the research API, as the services receive them
SoilTextSandy ==
    <<"S","a","n","d","y"," ","s","o","i","l",","," ","p","H"," ","7",".","2",".">>
SoilTextLead ==
    <<"C","l","a","y","."," ","L","e","a","d"," ","w","a","s"," ","f","o","u","n","d",
      ".">>
SoilTextToxic ==
    <<"T","o","x","i","c"," ","w","a","s","t","e"," ","s","i","t","e",";"," ","p","H",
      " ","o","f"," ","5",".","0">>
WaterTextSoft ==
    <<"S","o","f","t"," ","w","a","t","e","r",","," ","p","H"," ","7",".","4",","," ",
      "s","a","f","e",".">>
WaterTextBoil ==
    <<"H","a","r","d"," ","w","a","t","e","r","."," ","B","o","i","l"," ","n","o","t",
      "i","c","e"," ","i","s","s","u","e","d",".">>
WaterTextFilter ==
    <<"U","s","e"," ","a"," ","f","i","l","t","e","r",";"," ","p","H",":"," ","8">>

\* What the OpenWeather request gives: a level 1..5 or another, or a failure
AirRemotes ==
    {Raised} \cup {Returned([aqi |-> level, pollutant |-> p]) : level \in 0..5, p \in {"PM2.5", "O3"}}
\* What the soil research request gives
SoilRemotes == {Raised} \cup {Returned(t) : t \in {SoilTextSandy, SoilTextLead, SoilTextToxic}}
\* What the water research request gives
WaterRemotes == {Raised} \cup {Returned(t) : t \in {WaterTextSoft, WaterTextBoil, WaterTextFilter}}
\* What the seeded generator of water data draws
WaterDraws ==
    {Raised} \cup {Returned([risk |-> r, ph |-> NeutralPh + 5, hardness |-> h]) : r \in {TxtLow, TxtHigh}, h \in {TxtSoftCaps, TxtHardCaps}}
\* The profiles generate_report is called with while the collaborators vary
FetchProfiles ==
    {NoLifestyle}
    \cup { [ age_range |-> "65+", gender |-> NoneText, smoking_status |-> "current",
             activity_level |-> "sedentary", work_environment |-> "outdoor",
             diet_quality |-> None, sleep_hours |-> None, stress_level |-> None,
             medical_history |-> <<TxtAsthma>> ] }

\* Rows a table holds at most
MaxRows == 2
\* Seconds of the clock that stamps an order
MaxTime == 2

\* Profiles submitted through the quiz
SubmittedProfiles ==
    { [ age_range |-> "26-35", gender |-> g, smoking_status |-> "current",
        activity_level |-> "active", work_environment |-> "indoor",
        diet_quality |-> None, sleep_hours |-> None, stress_level |-> "high",
        medical_history |-> m ] :
      g \in {TxtFemale}, m \in {NoneList, <<TxtAsthma>>, <<CondPregnancy>>} }

\* Bodies of POST /health-report: a stored profile, direct inputs, or neither;
\* the schema has checked the coordinates
HealthReportRequests ==
    { [ handler |-> "generate_health_report", lifestyle_data_id |-> id,
        age_range |-> direct[1], smoking_status |-> direct[2],
        activity_level |-> None, work_environment |-> direct[3] ] :
      id \in 0..MaxRows, direct \in {<<None, None, None>>, <<"65+", "never", "outdoor">>} }

\* What the collaborators give while the routers are exercised
RouterReadings ==
    [ a : {125}, pollutant : {"PM2.5"}, soil : {TxtLow}, soil_ph : {NeutralPh},
      water : {TxtHigh}, water_ph : {NeutralPh}, hardness : {TxtModerate} ]

\* The call of the persistence block that raises
PersistFaults == {"none", "add", "commit", "refresh"}

\* Forms posted to /airpay-callback: by the gateway, which knows the key, or by
\* anyone else
CallbackFields ==
    [ handler : {"airpay_callback"}, TRANSACTIONSTATUS : {"200", "400"},
      TRANSACTIONID : {OrderId(i, t) : i \in 1..MaxRows, t \in 1..MaxTime},
      APTRANSACTIONID : {"ap1"}, AMOUNT : {"80.00"}, MESSAGE : {"msg"},
      TRANSACTIONTIME : {"now"}, CUSTOMVAR : {None, "x"} ]
Signed(form, secret_key) ==
    [ handler |-> form.handler, TRANSACTIONSTATUS |-> form.TRANSACTIONSTATUS,
      TRANSACTIONID |-> form.TRANSACTIONID, APTRANSACTIONID |-> form.APTRANSACTIONID,
      AMOUNT |-> form.AMOUNT, MESSAGE |-> form.MESSAGE,
      TRANSACTIONTIME |-> form.TRANSACTIONTIME, CUSTOMVAR |-> form.CUSTOMVAR,
      CHECKSUM |-> md5(checksum_string(form, secret_key)) ]
CallbackForms == {Signed(form, k) : form \in CallbackFields, k \in {AIRPAY_SECRET_KEY, "guess"}}

OtherEmail == <<"P","a","r","e","n","t","@","e","x","a","m","p","l","e",".","c","o","m">>
BypassEmailCaps == <<"A","b","h","y","a","m","M","a","t","h","7","8","@","g","a","m","i","l",".","c","o","m">>
\* Bodies of POST /create-airpay-order
OrderRequests ==
    [ handler : {"create_airpay_order"}, report_id : 1..(MaxRows + 1),
      buyerEmail : {OtherEmail, BypassEmailCaps} ]

----------------------------------------------------------------------------
(* State machine *)

NoReport == [none |-> TRUE]
NoAirQuality == [none |-> TRUE]
NoRequest == [none |-> TRUE]
NoResponse == [none |-> TRUE]
\* A coroutine that has not been created
NotStarted == [state |-> "unstarted"]
NoResult == <<0, <<>>, <<>> >>

Init ==
    /\ pc = "idle"
    /\ lifestyle_data = NoLifestyle
    /\ aqi = 0
    /\ soil_risk = NoneText
    /\ water_risk = NoneText
    /\ score_in = 0
    /\ lifestyle_result = NoResult
    /\ multiplier = 0
    /\ level_out = None
    /\ report = NoReport
    /\ primary_pollutant = None
    /\ soil_ph = NonePh
    /\ water_ph = NonePh
    /\ water_hardness = NoneText
    /\ previous = NoReport
    /\ air_quality = NoAirQuality
    /\ soil_task = NotStarted
    /\ water_task = NotStarted
    /\ arrivals = <<>>
    /\ health_reports = <<>>
    /\ lifestyle_table = <<>>
    /\ request = NoRequest
    /\ response = NoResponse

\* LifestyleService.calculate_lifestyle_risk(lifestyle)
CalculateLifestyleRisk ==
    /\ pc = "idle"
    /\ \E l \in LifestyleProfiles :
          /\ lifestyle_data' = l
          /\ lifestyle_result' = calculate_lifestyle_risk(l)
    /\ pc' = "done"
    /\ UNCHANGED <<aqi, soil_risk, water_risk, score_in, multiplier, level_out, report,
                   primary_pollutant, soil_ph, water_ph, water_hardness, previous>>
    /\ UNCHANGED <<service_vars, router_vars>>

\* HealthReportService._calculate_vulnerability_multiplier(data)
CalculateVulnerabilityMultiplier ==
    /\ pc = "idle"
    /\ \E l \in VulnerabilityProfiles :
          /\ lifestyle_data' = l
          /\ multiplier' = calculate_vulnerability_multiplier(l)
    /\ pc' = "done"
    /\ UNCHANGED <<aqi, soil_risk, water_risk, score_in, lifestyle_result, level_out,
                   report, primary_pollutant, soil_ph, water_ph, water_hardness, previous>>
    /\ UNCHANGED <<service_vars, router_vars>>

\* HealthReportService._get_risk_level(risk_score)
GetRiskLevel ==
    /\ pc = "idle"
    /\ \E s \in ScoreSamples :
          /\ score_in' = s
          /\ level_out' = get_risk_level(s)
    /\ pc' = "done"
    /\ UNCHANGED <<lifestyle_data, aqi, soil_risk, water_risk, lifestyle_result,
                   multiplier, report, primary_pollutant, soil_ph, water_ph,
                   water_hardness, previous>>
    /\ UNCHANGED <<service_vars, router_vars>>

\* One call of generate_report on the readings in
Generate(in) ==
    /\ lifestyle_data' = in.l
    /\ aqi' = in.a
    /\ primary_pollutant' = in.pollutant
    /\ soil_risk' = in.soil
    /\ soil_ph' = in.soil_ph
    /\ water_risk' = in.water
    /\ water_ph' = in.water_ph
    /\ water_hardness' = in.hardness
    /\ report' = generate_report(in)
    /\ pc' = "done"
    /\ UNCHANGED <<score_in, lifestyle_result, multiplier, level_out>>

\* HealthReportService.generate_report, for the readings the collaborators gave
GenerateReport ==
    /\ pc = "idle"
    /\ \/ \E in \in ScenarioInputs : Generate(in)
       \/ \E in \in SweepInputs : Generate(in)
       \/ \E in \in VulnerableInputs : Generate(in)
    /\ UNCHANGED <<previous, service_vars, router_vars>>

\* HealthReportService.generate_report, for any readings the schemas admit
GenerateReportAdmitted ==
    /\ pc = "idle"
    /\ \/ \E in \in AdmittedInputs : Generate(in)
       \/ \E in \in AdmittedInputsNoPh : Generate(in)
    /\ UNCHANGED <<previous, service_vars, router_vars>>

\* HealthReportService.generate_report, for a place that is read twice
GenerateReportFirst ==
    /\ pc = "idle"
    /\ \E in \in RepeatInputs : Generate(in)
    /\ UNCHANGED <<previous, service_vars, router_vars>>

\* A second call for the same place and profile, the AQI the same or higher
GenerateReportAgain ==
    /\ pc = "done"
    /\ report # NoReport
    /\ previous = NoReport
    /\ previous' = [aqi |-> aqi, report |-> report]
    /\ \E a2 \in LaterAqi(aqi) :
          Generate([ l |-> lifestyle_data, a |-> a2, soil |-> soil_risk,
                     water |-> water_risk, pollutant |-> primary_pollutant,
                     soil_ph |-> soil_ph, water_ph |-> water_ph,
                     hardness |-> water_hardness ])
    /\ UNCHANGED <<service_vars, router_vars>>

\* generate_report(latitude, longitude, lifestyle_data) is called and awaits
\* the air quality
CallGenerateReport ==
    /\ pc = "idle"
    /\ pc' = "air"
    /\ \E l \in FetchProfiles : lifestyle_data' = l
    /\ UNCHANGED <<aqi, soil_risk, water_risk, score_in, lifestyle_result, multiplier, level_out, report, primary_pollutant, soil_ph, water_ph, water_hardness, previous>>
    /\ UNCHANGED <<service_vars, router_vars>>

\* get_air_quality returns or raises; generate_report takes the answer or the
\* fallback, creates the two coroutines and awaits gather
AirQualityAnswers ==
    /\ pc = "air"
    /\ \E api_key \in BOOLEAN, remote \in AirRemotes :
          LET outcome == get_air_quality(api_key, remote) IN
          air_quality' = [failed |-> outcome.raised, response |-> AirOrFallback(outcome)]
    /\ soil_task' = [state |-> "running"]
    /\ water_task' = [state |-> "running"]
    /\ pc' = "gather"
    /\ UNCHANGED <<lifestyle_data, aqi, soil_risk, water_risk, score_in, lifestyle_result, multiplier, level_out, report, primary_pollutant, soil_ph, water_ph, water_hardness, previous>>
    /\ UNCHANGED <<arrivals, router_vars>>

\* safe_soil_research runs to its end
SoilTaskFinishes ==
    /\ pc = "gather"
    /\ soil_task.state = "running"
    /\ \E api_key \in BOOLEAN, remote \in SoilRemotes :
          LET outcome == research_soil_data(api_key, remote) IN
          soil_task' = [ state |-> "done", failed |-> outcome.raised,
                         query_failed |-> api_key /\ remote.raised,
                         result |-> safe_soil_research(outcome) ]
    /\ arrivals' = Append(arrivals, "soil")
    /\ UNCHANGED <<pc, lifestyle_data, aqi, soil_risk, water_risk, score_in, lifestyle_result, multiplier, level_out, report, primary_pollutant, soil_ph, water_ph, water_hardness, previous>>
    /\ UNCHANGED <<air_quality, water_task, router_vars>>

\* safe_water_quality runs to its end
WaterTaskFinishes ==
    /\ pc = "gather"
    /\ water_task.state = "running"
    /\ \E api_key \in BOOLEAN, remote \in WaterRemotes, drawn \in WaterDraws :
          LET outcome == get_water_quality(api_key, remote, drawn) IN
          water_task' = [ state |-> "done", failed |-> outcome.raised,
                          result |-> safe_water_quality(outcome) ]
    /\ arrivals' = Append(arrivals, "water")
    /\ UNCHANGED <<pc, lifestyle_data, aqi, soil_risk, water_risk, score_in, lifestyle_result, multiplier, level_out, report, primary_pollutant, soil_ph, water_ph, water_hardness, previous>>
    /\ UNCHANGED <<air_quality, soil_task, router_vars>>

\* gather returns; generate_report adapts the two dicts, runs the engine and
\* returns the report, or the exception of a coroutine leaves generate_report
GatherReturns ==
    /\ pc = "gather"
    /\ soil_task.state = "done"
    /\ water_task.state = "done"
    /\ LET gathered == gather(soil_task.result, water_task.result, arrivals) IN
       IF gathered.raised
       THEN /\ pc' = "raised"
            /\ UNCHANGED <<lifestyle_data, aqi, soil_risk, water_risk, score_in, lifestyle_result, multiplier, level_out, report, primary_pollutant, soil_ph, water_ph, water_hardness>>
       ELSE Generate(AdaptedReadings(lifestyle_data, air_quality.response, gathered.value[1], gathered.value[2]))
    /\ UNCHANGED <<previous, service_vars, router_vars>>

\* What an action of a router leaves alone in the services
engine_vars == <<lifestyle_data, aqi, soil_risk, water_risk, report, primary_pollutant, soil_ph, water_ph, water_hardness>>
unit_vars == <<score_in, lifestyle_result, multiplier, level_out>>

\* POST /lifestyle: submit_lifestyle_data
SubmitLifestyleData ==
    /\ pc = "idle"
    /\ Len(lifestyle_table) < MaxRows
    /\ \E lifestyle \in SubmittedProfiles, stored \in BOOLEAN :
          /\ request' = [handler |-> "submit_lifestyle_data", lifestyle |-> lifestyle]
          /\ IF stored
             THEN /\ lifestyle_table' = Append(lifestyle_table, LifestyleDataRow(NextId(lifestyle_table), lifestyle))
                  /\ response' = LifestyleResponse(NextId(lifestyle_table), calculate_lifestyle_risk(lifestyle))
             ELSE /\ lifestyle_table' = lifestyle_table
                  /\ response' = HTTPException(500)
    /\ pc' = "done"
    /\ UNCHANGED <<engine_vars, unit_vars, previous, service_vars, health_reports>>

\* POST /health-report: generate_health_report.  The schema of the request has
\* checked the coordinates; generate_report is taken as one step here
PostHealthReport ==
    /\ pc = "idle"
    /\ Len(health_reports) < MaxRows
    /\ \E req \in HealthReportRequests, fault \in PersistFaults, readings \in RouterReadings :
          /\ request' = [req EXCEPT !.handler = "generate_health_report"] @@ [fault |-> fault]
          /\ IF req.lifestyle_data_id # 0 /\ ~HasId(lifestyle_table, req.lifestyle_data_id)
             THEN /\ response' = HTTPException(404)
                  /\ health_reports' = health_reports
                  /\ pc' = "done"
                  /\ UNCHANGED <<engine_vars, unit_vars>>
             ELSE LET in == [l |-> RequestLifestyle(lifestyle_table, req)] @@ readings
                      report_data == generate_report(in)
                      saved == persist(health_reports, HealthReportRow(NextId(health_reports), report_data), fault)
                  IN  /\ Generate(in)
                      /\ health_reports' = saved.table
                      /\ response' = HealthReportResponse(saved.report_id, saved.is_paid, report_data)
    /\ UNCHANGED <<previous, service_vars, lifestyle_table>>

\* POST /create-airpay-order: create_airpay_order
CreateAirpayOrder ==
    /\ pc = "idle"
    /\ \E req \in OrderRequests, timestamp \in 1..MaxTime, reached \in BOOLEAN :
          /\ request' = req
          /\ IF ~HasId(health_reports, req.report_id)
             THEN /\ response' = HTTPException(404)
                  /\ health_reports' = health_reports
             ELSE LET result == create_airpay_order(health_reports, req, timestamp, reached) IN
                  /\ health_reports' = result.table
                  /\ response' = result.response
    /\ pc' = "done"
    /\ UNCHANGED <<engine_vars, unit_vars, previous, service_vars, lifestyle_table>>

\* POST /airpay-callback: airpay_callback
AirpayCallback ==
    /\ pc = "idle"
    /\ \E form \in CallbackForms :
          LET result == airpay_callback(health_reports, form) IN
          /\ request' = form
          /\ health_reports' = result.table
          /\ response' = result.response
    /\ pc' = "done"
    /\ UNCHANGED <<engine_vars, unit_vars, previous, service_vars, lifestyle_table>>

\* The answer is sent; the tables stay
Respond ==
    /\ pc = "done"
    /\ pc' = "idle"
    /\ lifestyle_data' = NoLifestyle
    /\ aqi' = 0
    /\ soil_risk' = NoneText
    /\ water_risk' = NoneText
    /\ report' = NoReport
    /\ primary_pollutant' = None
    /\ soil_ph' = NonePh
    /\ water_ph' = NonePh
    /\ water_hardness' = NoneText
    /\ request' = NoRequest
    /\ response' = NoResponse
    /\ UNCHANGED <<unit_vars, previous, service_vars, health_reports, lifestyle_table>>

\* The caller takes the result; the services keep nothing between calls.
Return ==
    /\ pc = "done"
    /\ pc' = "idle"
    /\ lifestyle_data' = NoLifestyle
    /\ aqi' = 0
    /\ soil_risk' = NoneText
    /\ water_risk' = NoneText
    /\ score_in' = 0
    /\ lifestyle_result' = NoResult
    /\ multiplier' = 0
    /\ level_out' = None
    /\ report' = NoReport
    /\ primary_pollutant' = None
    /\ soil_ph' = NonePh
    /\ water_ph' = NonePh
    /\ water_hardness' = NoneText
    /\ previous' = NoReport
    /\ air_quality' = NoAirQuality
    /\ soil_task' = NotStarted
    /\ water_task' = NotStarted
    /\ arrivals' = <<>>
    /\ UNCHANGED router_vars

Next == GenerateReport \/ Return
Spec == Init /\ [][Next]_vars

NextLifestyle == CalculateLifestyleRisk \/ Return
SpecLifestyle == Init /\ [][NextLifestyle]_vars

NextVulnerability == CalculateVulnerabilityMultiplier \/ Return
SpecVulnerability == Init /\ [][NextVulnerability]_vars

NextRiskLevel == GetRiskLevel \/ GenerateReport \/ Return
SpecRiskLevel == Init /\ [][NextRiskLevel]_vars

NextAdmitted == GenerateReportAdmitted \/ Return
SpecAdmitted == Init /\ [][NextAdmitted]_vars

NextRepeat == GenerateReportFirst \/ GenerateReportAgain \/ Return
SpecRepeat == Init /\ [][NextRepeat]_vars

NextFetch == CallGenerateReport \/ AirQualityAnswers \/ SoilTaskFinishes \/ WaterTaskFinishes \/ GatherReturns \/ Return
SpecFetch == Init /\ [][NextFetch]_vars
\* Every request has a timeout (10 s for the air quality, 30 s for the soil and
\* the water research) and the event loop runs every coroutine that can run
\* The steps of GatherReturns, told by what they do to pc: within NextFetch
\* no other action leaves "gather", and GatherReturns can always be taken
\* once both coroutines have finished
ResumeAfterGather ==
    /\ pc = "gather"
    /\ soil_task.state = "done"
    /\ water_task.state = "done"
    /\ pc' \in {"done", "raised"}
FetchFairness ==
    /\ WF_vars(AirQualityAnswers)
    /\ WF_vars(SoilTaskFinishes)
    /\ WF_vars(WaterTaskFinishes)
    /\ WF_pc(ResumeAfterGather)
SpecFetchFair == SpecFetch /\ FetchFairness

NextStorage == SubmitLifestyleData \/ PostHealthReport \/ Respond
SpecStorage == Init /\ [][NextStorage]_vars

NextPayments == PostHealthReport \/ CreateAirpayOrder \/ AirpayCallback \/ Respond
SpecPayments == Init /\ [][NextPayments]_vars

----------------------------------------------------------------------------
(* Vocabulary of the properties *)

ReportDone == pc = "done" /\ report # NoReport
Points(b) == IF b THEN 1 ELSE 0

\* Points of the lifestyle dimensions as the specification tabulates them
SmokingPoints(l) ==
    15 * Points(l.smoking_status = "former") + 40 * Points(l.smoking_status = "current")
ActivityPoints(l) ==
    10 * Points(l.activity_level = "moderate") + 25 * Points(l.activity_level = "sedentary")
WorkPoints(l) ==
    3 * Points(l.work_environment = "mixed") + 5 * Points(l.work_environment = "outdoor")
StressPoints(l) ==
    10 * Points(l.stress_level = "medium") + 20 * Points(l.stress_level = "high")
DietPoints(l) == 15 * Points(l.diet_quality = "poor")
SleepPoints(l) == 15 * Points(l.sleep_hours = "<6")
SumPoints(l) ==
    SmokingPoints(l) + ActivityPoints(l) + WorkPoints(l)
    + StressPoints(l) + DietPoints(l) + SleepPoints(l)

\* Age multiplier in tenths, by position of the band in ascending order
AgeBandsAscending == <<"13-17", "18-25", "26-35", "36-50", "51-65", "65+">>
BandMultiplier10(age_range) ==
    7 + (CHOOSE i \in 1..6 : AgeBandsAscending[i] = age_range)

\* The factor strings of each lifestyle dimension
SmokingTexts ==
    {"Non-smoker - excellent respiratory health foundation",
     "Current smoker - significant health risk factor",
     "Former smoker - reduced but present health impact"}
ActivityTexts ==
    {"Active lifestyle - strong cardiovascular protection",
     "Sedentary lifestyle - increases multiple health risks",
     "Moderate activity level - good health maintenance"}
WorkTexts ==
    {"Outdoor work environment - increased environmental exposure",
     "Mixed work environment - increased environmental exposure"}
StressTexts ==
    {"High stress level - impacts immune system and overall health",
     "Moderate stress level - manageable with interventions"}
DietTexts ==
    {"Good diet quality - supports immune function",
     "Poor diet quality - affects overall health resilience"}
SleepTexts ==
    {"Adequate sleep - supports recovery and immune function",
     "Insufficient sleep - weakens immune response"}

Mentions(list, texts) == \E i \in 1..Len(list) : list[i] \in texts

\* A scored dimension obeys the zero/non-zero rule: zero points give a positive
\* entry, more than zero give a risk entry and no positive entry.
ObeysRule(points, texts) ==
    /\ points = 0 => Mentions(lifestyle_result[3], texts)
    /\ points > 0 => /\ Mentions(lifestyle_result[2], texts)
                     /\ ~Mentions(lifestyle_result[3], texts)

\* <<x>> if b, else the empty list
Only(b, x) == IF b THEN <<x>> ELSE <<>>

\* Condition groups of a medical-history entry
MatchesRespiratory(c) ==
    \E k \in {TxtAsthma, TxtCopd, TxtBronchitis, TxtLung} : Contains(k, Lower(c))
MatchesHeart(c) == Contains(TxtHeart, Lower(c)) \/ Contains(TxtCardio, Lower(c))
MatchesAllergy(c) == Contains(TxtAllergy, Lower(c))
GroupsMatched(c) ==
    Points(MatchesRespiratory(c)) + Points(MatchesHeart(c)) + Points(MatchesAllergy(c))
EntriesOf(l) == IF l.medical_history = NoneList THEN <<>> ELSE l.medical_history
IsFemale(l) == l.gender # NoneText /\ Lower(l.gender) = TxtFemale
Pregnant(l) ==
    \E i \in 1..Len(EntriesOf(l)) : Contains(TxtPregnan, Lower(EntriesOf(l)[i]))

\* 1.0 + age adjustment + every group increment of every entry + pregnancy,
\* in hundredths
SumOfIncrements(l) ==
    LET h == EntriesOf(l) IN
    100
    + (IF l.age_range \in {"51-65", "65+"} THEN 20
       ELSE IF l.age_range = "13-17" THEN 10 ELSE 0)
    + 40 * Cardinality({i \in 1..Len(h) : MatchesRespiratory(h[i])})
    + 30 * Cardinality({i \in 1..Len(h) : MatchesHeart(h[i])})
    + 10 * Cardinality({i \in 1..Len(h) : MatchesAllergy(h[i])})
    + 40 * Points(IsFemale(l) /\ Pregnant(l))

\* The scenario: current smoker, no medical history, AQI 150
SmokerAt150 ==
    /\ ReportDone
    /\ lifestyle_data # NoLifestyle
    /\ lifestyle_data.smoking_status = "current"
    /\ EntriesOf(lifestyle_data) = <<>>
    /\ aqi = 150

----------------------------------------------------------------------------
(* Properties *)

\* C1: for every valid lifestyle profile the score returned by
\* calculate_lifestyle_risk lies in [0, 100].
C1_LifestyleScoreInRange ==
    pc = "done" => /\ 0 <= lifestyle_result[1]
                   /\ lifestyle_result[1] <= Pts(100)

\* C1 witness: a profile whose age-adjusted sum (120 * 1.3) exceeds 100 and is capped.
C1_Witness ==
    /\ pc = "done"
    /\ lifestyle_data # NoLifestyle
    /\ SumPoints(lifestyle_data) = 120
    /\ lifestyle_data.age_range = "65+"
    /\ lifestyle_result[1] = Pts(100)

\* C2: for AQI in 0..500, soil/water risk in {low, medium, high, unknown} and
\* every vulnerability multiplier, the reported environmental risk lies in [0, 100].
C2_EnvironmentalRiskInRange ==
    ReportDone => /\ 0 <= report.environmental_risk
                  /\ report.environmental_risk <= Pts(100)

\* C2 witness: base score times multiplier exceeds 100 and the report carries 100.
C2_Witness ==
    /\ ReportDone
    /\ report.env_risk_base * report.vulnerability_multiplier > Pts(100) * 100
    /\ report.environmental_risk = Pts(100)

\* C3: the composite score equals environmental_risk * 0.6 + lifestyle_risk * 0.4,
\* with environmental_risk the capped product of base score and multiplier, and
\* lies in [0, 100].
C3_CompositeIsWeightedSum ==
    ReportDone =>
        /\ report.risk_score * 10
              = report.environmental_risk * 6 + report.lifestyle_risk * 4
        /\ report.environmental_risk * 100
              = Min(report.env_risk_base * report.vulnerability_multiplier, Pts(100) * 100)
        /\ 0 <= report.risk_score
        /\ report.risk_score <= Pts(100)

\* C3 witness: a report with both parts at their cap, composite exactly 100.
C3_Witness ==
    /\ ReportDone
    /\ lifestyle_data # NoLifestyle
    /\ report.environmental_risk = Pts(100)
    /\ report.lifestyle_risk = Pts(100)
    /\ report.risk_score = Pts(100)

\* C4: the level is low below 35, medium from 35 up to but not including 65, and
\* high from 65 on, both for _get_risk_level on its own and for the level of a
\* report with respect to the report's composite score.
C4_SingleThreshold ==
    /\ (pc = "done" /\ report = NoReport) =>
          /\ score_in < Pts(35) => level_out = "low"
          /\ (Pts(35) <= score_in /\ score_in < Pts(65)) => level_out = "medium"
          /\ score_in >= Pts(65) => level_out = "high"
    /\ ReportDone =>
          /\ report.risk_score < Pts(35) => report.risk_level = "low"
          /\ (Pts(35) <= report.risk_score /\ report.risk_score < Pts(65))
                => report.risk_level = "medium"
          /\ report.risk_score >= Pts(65) => report.risk_level = "high"

\* C4 witness: the score exactly 35 is classified medium.
C4_Witness ==
    /\ pc = "done"
    /\ report = NoReport
    /\ score_in = Pts(35)
    /\ level_out = "medium"

\* C5 as stated: a current smoker without medical history at AQI 150 never gets
\* the level low.
C5_SmokerNeverLow ==
    SmokerAt150 => report.risk_level # "low"

\* C5 amended: in that scenario the composite score is at least 26, and the level
\* is at least medium whenever the lifestyle score is at least 57.5.
C5_SmokerAtLeast26 ==
    SmokerAt150 =>
        /\ report.risk_score >= Pts(26)
        /\ report.lifestyle_risk * 2 >= Pts(115) => report.risk_level # "low"

\* C5 witness: the scenario with lifestyle score 58.5 (age 18-25, sedentary),
\* soil and water low: composite 35.4, level medium.
C5_Witness ==
    /\ SmokerAt150
    /\ report.lifestyle_risk * 2 = Pts(117)
    /\ soil_risk = TxtLow
    /\ water_risk = TxtLow
    /\ report.risk_score * 10 = Pts(354)
    /\ report.risk_level = "medium"

C7_EveryGroupCounts ==
    (/\ pc = "done"
     /\ lifestyle_data # NoLifestyle
     /\ \E i \in 1..Len(EntriesOf(lifestyle_data)) :
            GroupsMatched(EntriesOf(lifestyle_data)[i]) > 1)
    => multiplier = SumOfIncrements(lifestyle_data)

\* C8: the multiplier is at least 1.0 and the reported environmental risk is
\* never below the base score; it is below base times multiplier only when it
\* is the cap, 100.
C8_MultiplierOnlyAmplifies ==
    ReportDone =>
        /\ report.vulnerability_multiplier >= 100
        /\ report.environmental_risk >= report.env_risk_base
        /\ report.environmental_risk * 100
              < report.env_risk_base * report.vulnerability_multiplier
           => report.environmental_risk = Pts(100)

\* C8 witness: a teenager's report, multiplier 1.1, environmental risk above
\* the base score and below the cap.
C8_Witness ==
    /\ ReportDone
    /\ lifestyle_data # NoLifestyle
    /\ lifestyle_data.age_range = "13-17"
    /\ report.vulnerability_multiplier = 110
    /\ report.environmental_risk > report.env_risk_base
    /\ report.environmental_risk < Pts(100)

\* C9: the lifestyle score is min(100, S * ageMultiplier), S the sum of the
\* tabulated points, the multiplier 0.8 .. 1.3 by ascending age band, applied
\* to the whole sum before the cap.
C9_LifestyleScoreFormula ==
    (pc = "done" /\ lifestyle_data # NoLifestyle) =>
        lifestyle_result[1] * 10
            = Min(Pts(100) * 10,
                  Pts(SumPoints(lifestyle_data)) * BandMultiplier10(lifestyle_data.age_range))

\* C9 witness: S = 120 in the youngest band gives 96, which a cap taken before
\* the multiplier would make 80.
C9_Witness ==
    /\ pc = "done"
    /\ lifestyle_data # NoLifestyle
    /\ SumPoints(lifestyle_data) = 120
    /\ lifestyle_data.age_range = "13-17"
    /\ lifestyle_result[1] = Pts(96)

\* C10 as stated: every scored dimension with zero points has an entry in the
\* positive list, every one with more than zero points has an entry in the risk
\* list and none in the positive list.
C10_ZeroPositiveNonZeroRisk ==
    (pc = "done" /\ lifestyle_data # NoLifestyle) =>
        /\ ObeysRule(SmokingPoints(lifestyle_data), SmokingTexts)
        /\ ObeysRule(ActivityPoints(lifestyle_data), ActivityTexts)
        /\ ObeysRule(WorkPoints(lifestyle_data), WorkTexts)
        /\ lifestyle_data.stress_level # None
              => ObeysRule(StressPoints(lifestyle_data), StressTexts)
        /\ lifestyle_data.diet_quality # None
              => ObeysRule(DietPoints(lifestyle_data), DietTexts)
        /\ lifestyle_data.sleep_hours # None
              => ObeysRule(SleepPoints(lifestyle_data), SleepTexts)

\* C10 amended: the risk list holds, in this order, an entry for smoking former or
\* current, sedentary activity, mixed or outdoor work, medium or high stress,
\* poor diet and sleep "<6"; the positive list holds, in this order, an entry
\* for smoking never, activity active or moderate (10 points), diet good and
\* sleep "6-8"; indoor work, low stress, average diet and sleep ">8" produce no
\* entry in either list.
C10_FactorLists ==
    (pc = "done" /\ lifestyle_data # NoLifestyle) =>
        LET l == lifestyle_data IN
        /\ lifestyle_result[2] =
              Only(l.smoking_status = "current",
                   "Current smoker - significant health risk factor")
              \o Only(l.smoking_status = "former",
                      "Former smoker - reduced but present health impact")
              \o Only(l.activity_level = "sedentary",
                      "Sedentary lifestyle - increases multiple health risks")
              \o Only(l.work_environment = "outdoor",
                      "Outdoor work environment - increased environmental exposure")
              \o Only(l.work_environment = "mixed",
                      "Mixed work environment - increased environmental exposure")
              \o Only(l.stress_level = "high",
                      "High stress level - impacts immune system and overall health")
              \o Only(l.stress_level = "medium",
                      "Moderate stress level - manageable with interventions")
              \o Only(l.diet_quality = "poor",
                      "Poor diet quality - affects overall health resilience")
              \o Only(l.sleep_hours = "<6",
                      "Insufficient sleep - weakens immune response")
        /\ lifestyle_result[3] =
              Only(l.smoking_status = "never",
                   "Non-smoker - excellent respiratory health foundation")
              \o Only(l.activity_level = "active",
                      "Active lifestyle - strong cardiovascular protection")
              \o Only(l.activity_level = "moderate",
                      "Moderate activity level - good health maintenance")
              \o Only(l.diet_quality = "good",
                      "Good diet quality - supports immune function")
              \o Only(l.sleep_hours = "6-8",
                      "Adequate sleep - supports recovery and immune function")

\* C10 witness: moderate activity (10 points) reported as a positive factor,
\* with indoor work and low stress leaving no entry.
C10_Witness ==
    /\ pc = "done"
    /\ lifestyle_data # NoLifestyle
    /\ lifestyle_data.activity_level = "moderate"
    /\ lifestyle_data.work_environment = "indoor"
    /\ lifestyle_data.stress_level = "low"
    /\ Mentions(lifestyle_result[3], {"Moderate activity level - good health maintenance"})
    /\ ~Mentions(lifestyle_result[2], ActivityTexts \cup WorkTexts \cup StressTexts)

----------------------------------------------------------------------------
(* C11 - C20: vocabulary *)

Supplied(risk) == risk # NoneText /\ risk # <<>>
\* The contamination risk as one of the three levels, whatever its case
Level(risk) == IF Supplied(risk) THEN Lower(risk) ELSE risk
Recognised(risk) == Level(risk) \in {TxtLow, TxtMedium, TxtHigh}

\* The specification's lookups, with 20 for everything else
SoilPoints(risk) ==
    CASE Level(risk) = TxtLow -> 10 [] Level(risk) = TxtMedium -> 40
      [] Level(risk) = TxtHigh -> 80 [] OTHER -> 20
WaterPoints(risk) ==
    CASE Level(risk) = TxtLow -> 10 [] Level(risk) = TxtMedium -> 45
      [] Level(risk) = TxtHigh -> 85 [] OTHER -> 20
\* min(AQI / 500 * 100, 100) in units of 1/Scale
AirPoints(a) == IF a >= 500 THEN 100 * Scale ELSE (a * Scale) \div 5

\* C11 (as claimed): the environmental base score is
\* airRisk*0.5 + soilRisk*0.25 + waterRisk*0.25, with soilRisk and waterRisk
\* taken from the two lookups and 20 whenever the contamination risk is
\* unknown, unrecognised or not supplied.
C11_BaseScoreFormula ==
    ReportDone =>
        4 * report.env_risk_base =
            2 * AirPoints(aqi) + Scale * SoilPoints(soil_risk)
            + Scale * WaterPoints(water_risk)

\* C12 (as claimed): for any integer AQI, below 0 and above 500 included, the
\* environmental risk and the composite risk of the report are within [0, 100].
C12_OutOfRangeAqiClamped ==
    ReportDone =>
        /\ 0 <= report.environmental_risk /\ report.environmental_risk <= Pts(100)
        /\ 0 <= report.risk_score /\ report.risk_score <= Pts(100)

\* A second report exists for the same place and profile.
ReadAgain == pc = "done" /\ report # NoReport /\ previous # NoReport

\* C13: with soil risk, water risk and the lifestyle profile held fixed, a
\* report for an AQI at least as high never has a lower environmental risk,
\* and never a lower composite risk.
C13_AqiMonotone ==
    (ReadAgain /\ aqi >= previous.aqi) =>
        /\ report.environmental_risk >= previous.report.environmental_risk
        /\ report.risk_score >= previous.report.risk_score

\* C13 witness: a higher AQI on the second call raised both scores.
C13_Witness ==
    /\ ReadAgain
    /\ aqi > previous.aqi
    /\ report.environmental_risk > previous.report.environmental_risk
    /\ report.risk_score > previous.report.risk_score

\* The factors of the report with one category / one text
FactorsIn(category) ==
    {i \in 1..Len(report.contributing_factors) :
        report.contributing_factors[i].category = category}
FactorsSaying(text) ==
    {i \in 1..Len(report.contributing_factors) :
        report.contributing_factors[i].factor = text}
HasProfile == lifestyle_data # NoLifestyle
AsthmaOnRecord ==
    \E i \in 1..Len(EntriesOf(lifestyle_data)) :
        Contains(TxtAsthma, Lower(EntriesOf(lifestyle_data)[i]))

\* C14: the smoking interaction factor is in the list iff a profile is
\* present, smoking is current and AQI > 100; the asthma interaction factor iff
\* a profile is present, some medical-history entry contains "asthma" in any
\* case and AQI > 100; each is there once, with category interaction, impact
\* negative and severity high, nothing else has that category, and at AQI 100
\* neither is there.
C14_InteractionRules ==
    ReportDone =>
        /\ FactorsSaying(SmokingInteractionText) # {}
              <=> (HasProfile /\ lifestyle_data.smoking_status = "current" /\ aqi > 100)
        /\ FactorsSaying(AsthmaInteractionText) # {}
              <=> (HasProfile /\ AsthmaOnRecord /\ aqi > 100)
        /\ Cardinality(FactorsSaying(SmokingInteractionText)) <= 1
        /\ Cardinality(FactorsSaying(AsthmaInteractionText)) <= 1
        /\ FactorsIn("interaction")
              = FactorsSaying(SmokingInteractionText) \cup FactorsSaying(AsthmaInteractionText)
        /\ \A i \in FactorsIn("interaction") :
              /\ report.contributing_factors[i].impact = "negative"
              /\ report.contributing_factors[i].severity = "high"
        /\ aqi = 100 => FactorsIn("interaction") = {}

\* C14 witness: a current smoker with "Asthma" on record at an AQI above 100
\* has both interaction factors.
C14_Witness ==
    /\ ReportDone
    /\ HasProfile
    /\ lifestyle_data.smoking_status = "current"
    /\ lifestyle_data.medical_history = <<CondAsthmaCaps>>
    /\ aqi = 101
    /\ Cardinality(FactorsIn("interaction")) = 2

\* The texts the three environmental blocks give their factors
AirFactorTexts ==
    {"High AQI (" \o ToString(aqi) \o ") - Primary pollutant: " \o primary_pollutant,
     "Moderate AQI (" \o ToString(aqi) \o ")"}
WaterFactorText == Str(CapitalizeText(water_risk)) \o " water contamination risk"
SoilFactorText == Str(CapitalizeText(soil_risk)) \o " soil contamination risk"

IsLifestyleRisk(f) == f.category = "lifestyle" /\ f.impact = "negative"
IsLifestylePositive(f) == f.category = "lifestyle" /\ f.impact = "positive"

\* The place of a factor in the order of the claim; 0 for a factor that the
\* claim does not list
Rank(f) ==
    CASE IsLifestylePositive(f) -> 7
      [] IsLifestyleRisk(f) -> 6
      [] f.category = "environmental" /\ f.factor = SoilFactorText -> 5
      [] f.category = "environmental" /\ f.factor = WaterFactorText -> 4
      [] f.category = "environmental" /\ f.factor \in AirFactorTexts -> 3
      [] f.category = "interaction" /\ f.factor = AsthmaInteractionText -> 2
      [] f.category = "interaction" /\ f.factor = SmokingInteractionText -> 1
      [] OTHER -> 0

FactorTexts(factors) == [i \in 1..Len(factors) |-> factors[i].factor]
FirstThree(list) == SubSeq(list, 1, IF Len(list) < 3 THEN Len(list) ELSE 3)

\* C15: the factor list is ordered interaction factors (smoking before
\* asthma), air, water, soil, the first 3 lifestyle risk factors at most in
\* the calculator's order, the first 3 positive factors at most; each factor
\* before the lifestyle ones is there once at most, further lifestyle factors
\* are dropped, and a smoking interaction factor is the first entry.
C15_FactorOrder ==
    ReportDone =>
        LET factors == report.contributing_factors
        IN  /\ \A i \in 1..Len(factors) : Rank(factors[i]) # 0
            /\ \A i \in 1..(Len(factors) - 1) :
                  LET here == Rank(factors[i])
                      next == Rank(factors[i + 1])
                  IN  here <= next /\ (here < 6 => here < next)
            /\ FactorTexts(SelectSeq(factors, IsLifestyleRisk))
                  = FirstThree(report.lifestyle_risk_factors)
            /\ FactorTexts(SelectSeq(factors, IsLifestylePositive))
                  = FirstThree(report.lifestyle_positive_factors)
            /\ FactorsSaying(SmokingInteractionText) \subseteq {1}

\* C15 witness: both interactions, air, water and soil factors, and three of
\* six lifestyle risk factors, in that order.
C15_Witness ==
    /\ ReportDone
    /\ Len(report.lifestyle_risk_factors) = 6
    /\ Len(report.contributing_factors) = 8
    /\ [i \in 1..8 |-> Rank(report.contributing_factors[i])] = <<1, 2, 3, 4, 5, 6, 6, 6>>

\* The ordinals the specification documents
SmokingOrdinal(smoking_status) ==
    CASE smoking_status = "never" -> 0 [] smoking_status = "former" -> 1
      [] smoking_status = "current" -> 2
RiskOrdinal(risk) ==
    CASE Level(risk) = TxtLow -> 1 [] Level(risk) = TxtMedium -> 2
      [] Level(risk) = TxtHigh -> 3
\* Keys a soil contamination risk could be found under
SoilRiskKeys == {"soil_risk", "soil_contamination_risk", "soil_contamination_level"}

\* C16 (as claimed): the feature vector has smoking as 0 / 1 / 2 for never /
\* former / current, and the soil and the water contamination risk each as
\* 1 / 2 / 3 for low / medium / high under a key of its own.
C16_DocumentedOrdinals ==
    ReportDone =>
        LET features == report.feature_vector
        IN  /\ HasProfile =>
                  /\ "smoking" \in DOMAIN features
                  /\ features["smoking"] = SmokingOrdinal(lifestyle_data.smoking_status)
            /\ water_risk \in {TxtLow, TxtMedium, TxtHigh} =>
                  /\ "water_risk" \in DOMAIN features
                  /\ features["water_risk"] = RiskOrdinal(water_risk)
            /\ soil_risk \in {TxtLow, TxtMedium, TxtHigh} =>
                  \E k \in SoilRiskKeys \cap DOMAIN features :
                      features[k] = RiskOrdinal(soil_risk)

\* C17 (as claimed): the feature vector has no water_risk entry when the water
\* contamination risk is missing or not one of low / medium / high, no
\* water_ph entry when the water pH is absent, and no smoking entry when no
\* lifestyle data is supplied.
C17_NoKeyForAbsentInput ==
    ReportDone =>
        LET features == report.feature_vector
        IN  /\ ~Recognised(water_risk) => "water_risk" \notin DOMAIN features
            /\ water_ph = NonePh => "water_ph" \notin DOMAIN features
            /\ ~HasProfile => "smoking" \notin DOMAIN features

\* The leading sentence of the summary for a risk level
LeadingSentence(risk_level) ==
    CASE risk_level = "low"    -> "Your overall health risk is low. "
      [] risk_level = "medium" -> "Your health risk is moderate. "
      [] risk_level = "high"   -> "Your health risk is elevated. "
\* The summary is the leading sentence of the report's level and then q
Says(q) == report.report_summary = LeadingSentence(report.risk_level) \o q
\* x > 1.5 * y
ExceedsByHalf(x, y) == 2 * x > 3 * y

\* C18: the summary is the leading sentence of the report's risk level followed
\* by exactly one qualifier: environment primary iff environmental risk >
\* 1.5 * lifestyle risk; otherwise lifestyle primary iff lifestyle risk >
\* 1.5 * environmental risk; otherwise both contribute.
C18_SummaryQualifier ==
    ReportDone =>
        LET env == report.environmental_risk
            life == report.lifestyle_risk
        IN  /\ Cardinality({q \in {EnvironmentPrimaryText, LifestylePrimaryText, BothText} :
                               Says(q)}) = 1
            /\ Says(EnvironmentPrimaryText) <=> ExceedsByHalf(env, life)
            /\ Says(LifestylePrimaryText)
                  <=> (~ExceedsByHalf(env, life) /\ ExceedsByHalf(life, env))
            /\ Says(BothText)
                  <=> (~ExceedsByHalf(env, life) /\ ~ExceedsByHalf(life, env))

\* C18 witness: a high-level report whose environmental risk is above the
\* lifestyle risk, yet not by half, says that both contribute.
C18_Witness ==
    /\ ReportDone
    /\ report.risk_level = "high"
    /\ report.environmental_risk > report.lifestyle_risk
    /\ ~ExceedsByHalf(report.environmental_risk, report.lifestyle_risk)
    /\ Says(BothText)

\* The recommendations of the report with one title
Recommending(title) ==
    {i \in 1..Len(report.health_recommendations) :
        report.health_recommendations[i].title = title}
IsHard(hardness) == Supplied(hardness) /\ Lower(hardness) = TxtHard

\* C19 (as claimed): whenever the water contamination risk is scored as medium
\* or high (45 or 85 points, in any case, and reported as a water factor), the
\* recommendations have a water-safety recommendation, of priority high when
\* the risk is high and medium when it is medium.
C19_WaterSafetyRecommendation ==
    (ReportDone /\ Level(water_risk) \in {TxtMedium, TxtHigh}) =>
        /\ FactorsSaying(WaterFactorText) # {}
        /\ \E i \in Recommending("Water Safety") :
              report.health_recommendations[i].priority = Str(Level(water_risk))

\* C20 (as claimed): the air recommendation (priority high) is there iff
\* AQI > 100, the soil precaution iff the soil risk is medium or high, the
\* hard-water note (priority low) iff the hardness is hard and the water
\* contamination is low, and at most 2 lifestyle recommendations follow.
C20_IndependentRules ==
    ReportDone =>
        LET recs == report.health_recommendations
        IN  /\ Recommending("Monitor Air Quality Daily") # {} <=> aqi > 100
            /\ \A i \in Recommending("Monitor Air Quality Daily") :
                  recs[i].priority = "high"
            /\ Recommending("Soil Safety Precautions") # {}
                  <=> Level(soil_risk) \in {TxtMedium, TxtHigh}
            /\ Recommending("Hard Water Care") # {}
                  <=> (IsHard(water_hardness) /\ Level(water_risk) = TxtLow)
            /\ \A i \in Recommending("Hard Water Care") : recs[i].priority = "low"
            /\ Cardinality(Recommending("Lifestyle Improvement")) <= 2

----------------------------------------------------------------------------
(* C21 - C30: vocabulary *)

\* A contamination risk that is a string, but none of low, medium, high
Unrecognised(risk) == risk # NoneText /\ ~Recognised(risk)
\* The answers of a profile that are among the documented values
Documented(l) ==
    /\ l.stress_level \in StressLevels
    /\ l.diet_quality \in DietQualities
    /\ l.sleep_hours \in SleepHours
\* The profile without its three optional answers
WithoutAnswers(l) ==
    [l EXCEPT !.stress_level = None, !.diet_quality = None, !.sleep_hours = None]
SeverityOf(text) == {report.contributing_factors[i].severity : i \in FactorsSaying(text)}

\* C22 (as claimed): a report is produced for every string, and an unrecognised
\* string contributes the documented default: 20 points for a soil or water
\* contamination risk, with a factor of severity medium, and no points for a
\* stress level, diet quality or sleep hours.
C22_UnrecognisedDefaults ==
    ReportDone =>
        /\ (Unrecognised(soil_risk) /\ Recognised(water_risk)) =>
              4 * report.env_risk_base =
                  2 * AirPoints(aqi) + Scale * 20 + Scale * WaterPoints(water_risk)
        /\ (Unrecognised(water_risk) /\ Recognised(soil_risk)) =>
              4 * report.env_risk_base =
                  2 * AirPoints(aqi) + Scale * SoilPoints(soil_risk) + Scale * 20
        /\ Unrecognised(soil_risk) => SeverityOf(SoilFactorText) = {"medium"}
        /\ Unrecognised(water_risk) => SeverityOf(WaterFactorText) = {"medium"}
        /\ (HasProfile /\ ~Documented(lifestyle_data)) =>
              report.lifestyle_risk = calculate_lifestyle_risk(WithoutAnswers(lifestyle_data))[1]

\* The readings the engine was given are those of the two coroutines' own results
FromOwnResults ==
    /\ soil_risk = soil_task.result.value.contamination_risk
    /\ soil_ph = AdaptedSoilPh(soil_task.result.value)
    /\ water_risk = water_task.result.value.contamination_risk
    /\ water_ph = water_task.result.value.ph
    /\ water_hardness = water_task.result.value.hardness
FetchDone == pc = "done" /\ report # NoReport /\ air_quality # NoAirQuality

C24_QueryFailureIsLowRisk ==
    (FetchDone /\ soil_task.query_failed) =>
        /\ SoilPoints(soil_risk) \in {10, 20}
        /\ SoilRisk(RiskVal(soil_risk)) \in {Pts(10), Pts(20)}

\* C25: the two coroutines are created only after the air quality (or its
\* fallback) is there, both are running before either has finished, and the
\* engine reads the soil coroutine's result as soil data and the water
\* coroutine's result as water data, whichever finished first.
C25_GatherByArgument ==
    /\ (soil_task # NotStarted \/ water_task # NotStarted) => air_quality # NoAirQuality
    /\ (pc = "gather" /\ arrivals = <<>>) => (soil_task.state = "running" /\ water_task.state = "running")
    /\ FetchDone =>
          /\ FromOwnResults
          /\ report = generate_report(AdaptedReadings(lifestyle_data, air_quality.response, soil_task.result.value, water_task.result.value))
C25_Witness ==
    /\ FetchDone
    /\ arrivals = <<"water", "soil">>
    /\ soil_task.result.value.contamination_risk # water_task.result.value.contamination_risk
    /\ soil_task.failed /\ ~water_task.failed

\* The request being answered is one of the named handler
IsCall(req, handler) == "handler" \in DOMAIN req /\ req.handler = handler

\* C26: a step of airpay_callback changes a report (sets its is_paid to 1)
\* only when the CHECKSUM of the form equals the checksum computed from the
\* fields of the form, the merchant id and the secret key; a form with a wrong
\* checksum leaves every report as it was.
C26_PaidOnlyOnValidChecksum ==
    [][(pc = "idle" /\ IsCall(request', "airpay_callback") /\ health_reports' # health_reports) => request'.CHECKSUM = calculated_checksum(request')]_vars

\* C27: every call of airpay_callback is answered by a redirect to the report
\* page: payment=success when the status is "200" and a report carries the
\* order id, and then that report is paid; payment=failed otherwise.
C27_AlwaysRedirects ==
    (pc = "done" /\ IsCall(request, "airpay_callback")) =>
        /\ response.status_code = 303
        /\ IF request.TRANSACTIONSTATUS = "200" /\ HasOrder(health_reports, request.TRANSACTIONID)
           THEN /\ response.url = frontend_url \o "?payment=success"
                /\ health_reports[FirstWithOrder(health_reports, request.TRANSACTIONID)].is_paid = 1
           ELSE response.url = frontend_url \o "?payment=failed"

\* The interaction factors of a report
InteractionsOf(r) == SelectSeq(r.contributing_factors, LAMBDA f : f.category = "interaction")
\* The readings the engine was called with, around another profile
ReadingsWith(l) ==
    [ l |-> l, a |-> aqi, soil |-> soil_risk, water |-> water_risk,
      pollutant |-> primary_pollutant, soil_ph |-> soil_ph, water_ph |-> water_ph,
      hardness |-> water_hardness ]
\* generate_health_report has got past the lookup of the profile
Answered == pc = "done" /\ IsCall(request, "generate_health_report") /\ response.status_code # 404

\* C28: when add, commit or refresh raises while generate_health_report stores
\* the report, the request is still answered 200 with report_id = 0 and
\* is_paid = 0, the scores, level, summary, factors, recommendations, feature
\* vector and multiplier are those generate_report produced, and a failed add
\* or commit leaves no row behind.
C28_PersistFailureStillAnswers ==
    [][(pc = "idle" /\ IsCall(request', "generate_health_report") /\ response'.status_code # 404 /\ request'.fault # "none") =>
          /\ response'.status_code = 200
          /\ response'.report_id = 0
          /\ response'.is_paid = 0
          /\ response'.risk_score = report'.risk_score
          /\ response'.risk_level = report'.risk_level
          /\ response'.environmental_risk = report'.environmental_risk
          /\ response'.lifestyle_risk = report'.lifestyle_risk
          /\ response'.vulnerability_multiplier = report'.vulnerability_multiplier
          /\ response'.report_summary = report'.report_summary
          /\ response'.contributing_factors = report'.contributing_factors
          /\ response'.health_recommendations = report'.health_recommendations
          /\ response'.feature_vector = report'.feature_vector
          /\ report' = generate_report(ReadingsWith(lifestyle_data)')
          /\ request'.fault \in {"add", "commit"} => health_reports' = health_reports]_vars
C28_Witness ==
    /\ Answered
    /\ request.fault = "refresh"
    /\ request.lifestyle_data_id # 0
    /\ Len(health_reports) = 2
    /\ response.report_id = 0
    /\ response.risk_level = report.risk_level

\* C29: a report made without lifestyle data has lifestyle risk 0 and
\* multiplier 1.0, its environmental risk is the base score, it lists no
\* interaction and no lifestyle factor and no lifestyle recommendation, and
\* its composite is 0.6 times the base.
C29_NoLifestyleFrame ==
    (ReportDone /\ lifestyle_data = NoLifestyle) =>
        /\ report.lifestyle_risk = 0
        /\ report.vulnerability_multiplier = 100
        /\ report.environmental_risk = report.env_risk_base
        /\ FactorsIn("interaction") = {}
        /\ FactorsIn("lifestyle") = {}
        /\ \A i \in 1..Len(report.health_recommendations) : report.health_recommendations[i].category # "lifestyle"
        /\ 10 * report.risk_score = 6 * report.env_risk_base
C29_Witness ==
    /\ ReportDone
    /\ lifestyle_data = NoLifestyle
    /\ aqi > 100
    /\ report.env_risk_base > 0
    /\ report.risk_score > 0
    /\ Len(report.contributing_factors) > 0

\* C30 (as claimed): a report made for a stored profile has the lifestyle
\* risk, the multiplier and the interaction factors the engine gives for the
\* profile as it was submitted, medical history included.
C30_StoredProfileRoundTrip ==
    (Answered /\ request.lifestyle_data_id # 0 /\ response.status_code = 200) =>
        LET direct == generate_report(ReadingsWith(FirstWithId(lifestyle_table, request.lifestyle_data_id).submitted))
        IN  /\ response.lifestyle_risk = direct.lifestyle_risk
            /\ response.vulnerability_multiplier = direct.vulnerability_multiplier
            /\ InteractionsOf(response) = InteractionsOf(direct)

====
